---------------------------- MODULE Spec2Model ----------------------------
(***************************************************************************)
(* The agentic critique-and-refinement loop of the avatar generator       *)
(* (App component with executeGenerationLoop, startVideoGeneration,       *)
(* handleSubmit, handleUserRefine, handleApprove and reset).               *)
(*                                                                         *)
(* The component's React state and the locals of the one run of            *)
(* executeGenerationLoop that can be active are the variables.  Every      *)
(* `await` of the code is a suspension point: one action is the code that  *)
(* runs from the completion of one awaited provider call (or from a user   *)
(* event) up to the start of the next awaited call.                        *)
(*                                                                         *)
(* Object identity of images: the images a run generates are numbered      *)
(* 1, 2, 3, 4 in generation order; OldImage stands for an image object of  *)
(* an earlier run that the session state still holds; NoImage is null.     *)
(* Prompts are strings compared by value: 0 is the empty string, and every *)
(* non-empty text a provider returns is a text not seen before in the run. *)
(* Timestamps of log entries are left out.                                 *)
(*                                                                         *)
(* Three further programs of the repository are modelled next to the       *)
(* agent loop, each as a run of its own (variable `program`): generateAll,  *)
(* the single-pass pipeline of src/App.tsx; generateAvatarVideo with its    *)
(* retry loop; and the 3D task poller waitForTaskCompletion.  Their log     *)
(* messages are written without the leading emoji, an error message of the *)
(* video provider is the sequence of its words, and time is in ms.          *)
(***************************************************************************)
EXTENDS Integers, Sequences, FiniteSets, TLC

\* ------------------------------------------------------------ constants
MAX_REFINEMENT_LOOPS == 3
QUALITY_THRESHOLD == 85
\* generateAvatarVideo: attempts, sleep before a retry, polling interval (ms)
MAX_RETRIES == 3
RETRY_DELAY_MS == 4000
POLL_DELAY_MS == 5000
\* waitForTaskCompletion: pollInterval (ms)
pollInterval == 3000

\* ------------------------------------------------------------ bounds
\* A feedback resumption keeps the log; it may start while the log is
\* shorter than this.
MaxLogLen == 23
\* longest log of generateAll before the 3D progress callback stops adding
MaxAppLogLen == 11
\* polling sleeps of one video attempt that the history `delays` records;
\* the sleeps an attempt makes beyond these are not recorded
MaxPolls == 2

\* Scores a live critic may return (CritiqueResult.score, 0..100).
Scores == {0, 50, 84, 85, 100}

\* A score outside 0..100 that the provider's JSON may carry: the response
\* schema asks for an integer and sets no minimum or maximum.
InvalidScores == {150}

\* Score sequences of a scripted critic (the scenarios of the test plan);
\* the empty script is the live critic.
Scripts == { <<60, 72, 90>>, <<80, 95, 70>>, <<40, 50, 60>> }

\* Messages of the exceptions a provider call may throw.
ErrMsgs == {"quota exceeded", ""}

\* Texts the user may type into the feedback box.
Feedbacks == {"", " ", "make the visor brighter"}

NoImage == 0
OldImage == -1

\* AppStep
INPUT == "INPUT"
OPTIMIZING_PROMPT == "OPTIMIZING_PROMPT"
GENERATING_IMAGE == "GENERATING_IMAGE"
CRITIQUING == "CRITIQUING"
REFINING == "REFINING"
AWAITING_APPROVAL == "AWAITING_APPROVAL"
GENERATING_VIDEO == "GENERATING_VIDEO"
COMPLETE == "COMPLETE"
ERROR == "ERROR"

AppStep == {INPUT, OPTIMIZING_PROMPT, GENERATING_IMAGE, CRITIQUING, REFINING,
            AWAITING_APPROVAL, GENERATING_VIDEO, COMPLETE, ERROR}

VARIABLES
    \* React state of App
    isKeyReady, step, generatedPrompt, generatedImage, generatedVideoUrl,
    logs, error, critique, loopCount, userFeedback,
    \* control: the awaited call ("idle" when none), the state of its
    \* promise, and the event handler whose continuation is pending
    pc, response, handler,
    \* locals of executeGenerationLoop / startVideoGeneration
    currentPrompt, currentImage, loops, bestImage, bestScore, isSatisfied,
    videoImage,
    \* history of the current run
    loopStarted, loopEnded, restored, crit, genPrompts, calls,
    \* the critic: <<>> is the live provider, otherwise a scripted stub
    criticScript

stateVars == <<isKeyReady, step, generatedPrompt, generatedImage,
               generatedVideoUrl, logs, error, critique, loopCount,
               userFeedback>>
stateVarsButLogs == <<isKeyReady, step, generatedPrompt, generatedImage,
                      generatedVideoUrl, error, critique, loopCount,
                      userFeedback>>
localVars == <<currentPrompt, currentImage, loops, bestImage, bestScore,
               isSatisfied, videoImage>>
histVarsButCalls == <<loopStarted, loopEnded, restored, crit, genPrompts>>
histVars == <<histVarsButCalls, calls>>
\* The repository holds further programs next to the agent loop: the
\* single-pass pipeline generateAll, the retrying video adapter
\* generateAvatarVideo, the 3D task poller waitForTaskCompletion and the 3D
\* conversion generate3DModel that calls the poller.
\* `program` says which of them a behaviour is a run of.
VARIABLES
    program,
    \* the awaited call of that program ("none" when it is not suspended)
    \* and the state of its promise
    awaited, promise,
    \* React state of the App of generateAll
    name, description, includeVideo, phase, appLogs, appError, avatarImage,
    videoUrl, model3DUrl,
    \* generateAvatarVideo: locals, the operations it started, the failures
    \* of its attempts, every sleep it made, and how the call ended
    attempt, lastError, operations, failures, delays, videoOutcome,
    \* waitForTaskCompletion: Date.now() - startTime, the argument
    \* maxWaitMs, whether onProgress was passed, the statuses fetched, the
    \* onProgress calls made, and how the call ended
    elapsed, maxWaitMs, hasOnProgress, fetched, progressCalls, pollOutcome,
    \* generate3DModel: the calls it made in order, the output of the
    \* finished task, its locals modelBase64 (whether defined),
    \* localModelUrl and localPreviewUrl, the percentages passed to
    \* onProgress, and how the call ended
    requests, output, modelBase64, localModelUrl, localPreviewUrl,
    onProgressCalls, model3DOutcome

pipelineVars == <<name, description, includeVideo, phase, appLogs, appError,
                  avatarImage, videoUrl, model3DUrl>>
videoVars == <<attempt, lastError, operations, failures, delays, videoOutcome>>
pollVars == <<elapsed, maxWaitMs, hasOnProgress, fetched, progressCalls,
              pollOutcome>>
model3DVars == <<requests, output, modelBase64, localModelUrl, localPreviewUrl,
                 onProgressCalls, model3DOutcome>>
serviceVars == <<program, awaited, promise, pipelineVars, videoVars, pollVars,
                 model3DVars>>
agentVars == <<stateVars, pc, response, handler, localVars, histVars, criticScript>>
vars == <<agentVars, serviceVars>>

\* ------------------------------------------------------------ helpers
Entry(message, type) == [message |-> message, type |-> type]

\* variant: the new entry is put in front of the log
addLog_InFront(l, message, type) == <<Entry(message, type)>> \o l

\* addLog: appends one entry at the end of the log
addLog(l, message, type) == Append(l, Entry(message, type))

\* String.prototype.trim on the feedback texts
Trim(s) == IF s = " " THEN "" ELSE s

Call(op, prompt, image, score, feedback) ==
    [op |-> op, prompt |-> prompt, image |-> image, score |-> score,
     feedback |-> feedback]

\* a text the provider has not returned before in this run
FreshPrompt(cur, gen) == (IF cur > gen THEN cur ELSE gen) + 1

Max(S) == CHOOSE x \in S : \A y \in S : y <= x

ScoreSeq == [i \in 1..Len(crit) |-> crit[i].score]

\* the scores the critic may return to the next critique call
NextScores ==
    IF criticScript = <<>> THEN Scores \cup InvalidScores
    ELSE IF Len(crit) < Len(criticScript) THEN {criticScript[Len(crit) + 1]}
    ELSE {}

\* the promise of the awaited call
NoCall == [status |-> "none", value |-> 0, message |-> ""]
Pending == [status |-> "pending", value |-> 0, message |-> ""]
Fulfilled(v) == [status |-> "fulfilled", value |-> v, message |-> ""]
Rejected(m) == [status |-> "rejected", value |-> 0, message |-> m]

\* number of calls of `op` the run has started
CallCount(op) == Cardinality({i \in 1..Len(calls) : calls[i].op = op})

\* the continuation of an event handler after the awaited call returned:
\* handleUserRefine clears the feedback box, the others do nothing more
HandlerEnd(fb) == IF handler = "refine" THEN "" ELSE fb

\* the agent loop's App before its first event
AgentLoopIdle ==
    /\ isKeyReady = FALSE
    /\ step = INPUT
    /\ generatedPrompt = 0
    /\ generatedImage = NoImage
    /\ generatedVideoUrl = <<>>
    /\ logs = <<>>
    /\ error = <<>>
    /\ critique = <<>>
    /\ loopCount = 0
    /\ userFeedback = ""
    /\ pc = "idle"
    /\ response = NoCall
    /\ handler = "none"
    /\ currentPrompt = 0
    /\ currentImage = NoImage
    /\ loops = 0
    /\ bestImage = NoImage
    /\ bestScore = 0
    /\ isSatisfied = FALSE
    /\ videoImage = NoImage
    /\ loopStarted = FALSE
    /\ loopEnded = FALSE
    /\ restored = FALSE
    /\ crit = <<>>
    /\ genPrompts = <<>>
    /\ calls = <<>>

\* the App of generateAll before its first event, and the two service
\* functions before they are called
ServicesIdle ==
    /\ awaited = "none"
    /\ promise = NoCall
    /\ name = ""
    /\ description = ""
    /\ includeVideo = FALSE
    /\ phase = "idle"
    /\ appLogs = <<>>
    /\ appError = <<>>
    /\ avatarImage = NoImage
    /\ videoUrl = <<>>
    /\ model3DUrl = <<>>
    /\ attempt = 0
    /\ lastError = <<>>
    /\ operations = 0
    /\ failures = <<>>
    /\ delays = <<>>
    /\ videoOutcome = <<>>
    /\ elapsed = 0
    /\ maxWaitMs = 0
    /\ hasOnProgress = FALSE
    /\ fetched = <<>>
    /\ progressCalls = <<>>
    /\ pollOutcome = <<>>
    /\ requests = <<>>
    /\ output = <<>>
    /\ modelBase64 = FALSE
    /\ localModelUrl = ""
    /\ localPreviewUrl = ""
    /\ onProgressCalls = <<>>
    /\ model3DOutcome = <<>>

Init ==
    /\ AgentLoopIdle
    /\ criticScript \in Scripts \cup {<<>>}
    /\ program = "AgentLoop"
    /\ ServicesIdle


\* ------------------------------------------------------- user interface
\* What the rendered page lets the user do in the current state.
SubmitShown == step \in {INPUT, ERROR} /\ isKeyReady
\* variant: the approval dialog is rendered whatever the step is
ApproveShown_AnyStep == generatedImage # NoImage /\ generatedVideoUrl = <<>>

ApproveShown ==
    generatedImage # NoImage /\ generatedVideoUrl = <<>> /\ step = AWAITING_APPROVAL
\* variant: the feedback panel is also rendered in the error state
FeedbackShown_InError ==
    step \in {COMPLETE, AWAITING_APPROVAL, ERROR} /\ generatedImage # NoImage

FeedbackShown == step \in {COMPLETE, AWAITING_APPROVAL} /\ generatedImage # NoImage
ResetShown == step = ERROR \/ FeedbackShown

\* ApiKeySelector reports that a key is selected
SetKeyReady ==
    /\ ~isKeyReady
    /\ isKeyReady' = TRUE
    /\ UNCHANGED <<step, generatedPrompt, generatedImage, generatedVideoUrl, logs,
                   error, critique, loopCount, userFeedback, pc, response,
                   handler, localVars, histVars, criticScript, serviceVars>>

\* the user edits the feedback box
SetUserFeedback(text) ==
    /\ FeedbackShown
    /\ text # userFeedback
    /\ userFeedback' = text
    /\ UNCHANGED <<isKeyReady, step, generatedPrompt, generatedImage,
                   generatedVideoUrl, logs, error, critique, loopCount, pc,
                   response, handler, localVars, histVars, criticScript, serviceVars>>

\* ------------------------------------------------------------ providers
\* What the awaited call can resolve with: for the prompt calls whether the
\* provider returned text (1) or none (0), for the critic the score, for
\* fetch whether response.ok, otherwise just completion.
Results ==
    CASE pc \in {"optimizePrompt", "refinePrompt:feedback", "refinePrompt"} -> {0, 1}
      [] pc = "critiqueGeneratedImage" -> NextScores
      [] pc = "fetch" -> {0, 1}
      [] OTHER -> {1}

\* the promise of the awaited call is fulfilled
ProviderFulfils(v) ==
    /\ response.status = "pending"
    /\ v \in Results
    /\ response' = Fulfilled(v)
    /\ UNCHANGED <<stateVars, pc, handler, localVars, histVars, criticScript, serviceVars>>

\* the promise of the awaited call is rejected: the call throws
ProviderRejects(message) ==
    /\ response.status = "pending"
    /\ response' = Rejected(message)
    /\ UNCHANGED <<stateVars, pc, handler, localVars, histVars, criticScript, serviceVars>>

\* ------------------------------------------- executeGenerationLoop, entry
\* variant: a run keeps the iteration counter the session shows
InitialLoopCount_Kept(previous) == previous

\* setLoopCount(0) at the start of every run
InitialLoopCount(previous) == 0

\* From the call up to the first awaited provider call.
ExecStart(h, initialPrompt, initialFeedback) ==
    LET prompt == IF initialPrompt = 0 THEN 0 ELSE 1
        kept == IF generatedPrompt = 0 THEN 0 ELSE 1
        l0 == IF initialPrompt = 0 THEN <<>> ELSE logs
    IN
    /\ handler' = h
    /\ error' = <<>>
    /\ generatedVideoUrl' = <<>>
    /\ loopCount' = InitialLoopCount(loopCount)
    /\ critique' = <<>>
    /\ generatedPrompt' = kept
    /\ generatedImage' = IF generatedImage = NoImage THEN NoImage ELSE OldImage
    /\ currentPrompt' = prompt
    /\ currentImage' = NoImage
    /\ loops' = 0
    /\ bestImage' = NoImage
    /\ bestScore' = 0
    /\ isSatisfied' = FALSE
    /\ videoImage' = NoImage
    /\ loopStarted' = FALSE
    /\ loopEnded' = FALSE
    /\ restored' = FALSE
    /\ crit' = <<>>
    /\ genPrompts' = <<>>
    /\ response' = Pending
    /\ IF prompt = 0
       THEN /\ step' = OPTIMIZING_PROMPT
            /\ logs' = addLog(addLog(l0, "Initializing Avatar Agent...", "info"),
                              "Analyzing input...", "info")
            /\ calls' = <<Call("optimizePrompt", 0, NoImage, 0, "")>>
            /\ pc' = "optimizePrompt"
       ELSE IF initialFeedback # ""
       THEN /\ logs' = addLog(l0, "Applying user feedback: " \o initialFeedback, "warning")
            /\ step' = REFINING
            /\ calls' = <<Call("refinePrompt", prompt, NoImage, 0, initialFeedback)>>
            /\ pc' = "refinePrompt:feedback"
       ELSE /\ step' = GENERATING_IMAGE
            /\ logs' = addLog(l0, "Generating Concept (V1)...", "info")
            /\ calls' = <<Call("generateAvatarImage", prompt, NoImage, 0, "")>>
            /\ pc' = "generateAvatarImage:V1"
    /\ UNCHANGED <<isKeyReady, userFeedback, criticScript, serviceVars>>

\* the form is submitted
handleSubmit ==
    /\ SubmitShown
    /\ ExecStart("submit", 0, "")

\* "Submit Feedback & Refine Avatar"
handleUserRefine ==
    /\ FeedbackShown
    /\ Trim(userFeedback) # ""
    /\ Len(logs) < MaxLogLen
    /\ ExecStart("refine", generatedPrompt, userFeedback)

\* ------------------------------------- executeGenerationLoop, the run
\* optimizePrompt: response.text?.trim() || ""
optimizePrompt(hasText) ==
    IF hasText = 1 THEN FreshPrompt(currentPrompt, generatedPrompt) ELSE 0

\* variant: an empty refinement yields the empty prompt
refinePrompt_Empty(hasText) ==
    IF hasText = 1 THEN FreshPrompt(currentPrompt, generatedPrompt) ELSE 0

\* refinePrompt: response.text?.trim() || currentPrompt
refinePrompt(hasText) ==
    IF hasText = 1 THEN FreshPrompt(currentPrompt, generatedPrompt) ELSE currentPrompt

\* The prompt is established; the first image is requested.
PromptEstablished(newPrompt) ==
    /\ currentPrompt' = newPrompt
    /\ generatedPrompt' = newPrompt
    /\ step' = GENERATING_IMAGE
    /\ calls' = Append(calls, Call("generateAvatarImage", newPrompt, NoImage, 0, ""))
    /\ pc' = "generateAvatarImage:V1"
    /\ response' = Pending
    /\ UNCHANGED <<isKeyReady, generatedImage, generatedVideoUrl, error, critique,
                   loopCount, userFeedback, handler, currentImage, loops,
                   bestImage, bestScore, isSatisfied, videoImage,
                   histVarsButCalls, criticScript, serviceVars>>

\* optimizePrompt returned
OptimizeReturns ==
    /\ pc = "optimizePrompt"
    /\ response.status = "fulfilled"
    /\ logs' = addLog(addLog(logs, "Visual blueprint constructed.", "success"),
                      "Generating Concept (V1)...", "info")
    /\ PromptEstablished(optimizePrompt(response.value))

\* the refinePrompt call that carries the user feedback returned
FeedbackRefineReturns ==
    /\ pc = "refinePrompt:feedback"
    /\ response.status = "fulfilled"
    /\ logs' = addLog(logs, "Generating Concept (V1)...", "info")
    /\ PromptEstablished(refinePrompt(response.value))

\* variant: the loop runs once more than the maximum
LoopContinues_OffByOne(n, satisfied) == n <= MAX_REFINEMENT_LOOPS /\ ~satisfied

\* the loop condition of the scoring loop
LoopContinues(n, satisfied) == n < MAX_REFINEMENT_LOOPS /\ ~satisfied

\* variants: the last score always replaces the best; ties replace the
\* incumbent image; the comparison is inverted
TrackBestScore_Last(score, best) == score
TrackBestImage_Ties(score, best, image, bestImg) == IF score >= best THEN image ELSE bestImg
TrackBestImage_Inverted(score, best, image, bestImg) == IF score < best THEN image ELSE bestImg

\* "Track best": strict greater-than, ties keep the incumbent
TrackBestScore(score, best) == IF score > best THEN score ELSE best
TrackBestImage(score, best, image, bestImg) == IF score > best THEN image ELSE bestImg

\* variant: the threshold is exclusive
MeetsThreshold_Exclusive(score) == score > QUALITY_THRESHOLD

\* "Validation": the threshold is inclusive
MeetsThreshold(score) == score >= QUALITY_THRESHOLD

\* severity of the "Quality Score" log entry
ScoreSeverity(score) == IF score > QUALITY_THRESHOLD THEN "success" ELSE "warning"

\* text of the "Quality Score" log entry; the digits of the score are not
\* kept in the entry, its severity is
QualityScoreMessage == "Quality Score: <score>/100"

\* variant: the newest image is always kept
NeedsRestore_Never(image, bestImg) == FALSE

\* "Restore best image if the last one wasn't the best"
NeedsRestore(image, bestImg) == image # bestImg

\* variant: the run never stops for approval
StopsForApproval_Never(satisfied) == FALSE

\* "Present to user for approval": the run stops instead of starting the video
StopsForApproval(satisfied) == ~satisfied

\* startVideoGeneration, up to the awaited generateAvatarVideo
StartVideo(image, l, c) ==
    /\ step' = GENERATING_VIDEO
    /\ logs' = addLog(l, "Initializing Veo 3.1 360-degree engine...", "info")
    /\ videoImage' = image
    /\ calls' = Append(c, Call("generateAvatarVideo", 0, image, 0, ""))
    /\ pc' = "generateAvatarVideo"
    /\ response' = Pending

\* The code after the scoring loop: reconciliation, then either the
\* approval stop or the video generation.  `image` and `shown` are
\* currentImage and generatedImage at loop exit.
AfterLoop(image, shown, bestImg, satisfied, l, c) ==
    LET restore == NeedsRestore(image, bestImg)
        l1 == IF restore
              THEN addLog(l, "Restoring best performing version...", "success")
              ELSE l
        result == IF restore THEN bestImg ELSE image
    IN
    /\ loopEnded' = TRUE
    /\ restored' = restore
    /\ currentImage' = result
    /\ generatedImage' = IF restore THEN bestImg ELSE shown
    /\ IF StopsForApproval(satisfied)
       THEN /\ logs' = addLog(l1, "Max refinement loops reached.", "warning")
            /\ step' = AWAITING_APPROVAL
            /\ calls' = c
            /\ pc' = "idle"
            /\ response' = NoCall
            /\ handler' = "none"
            /\ userFeedback' = HandlerEnd(userFeedback)
            /\ UNCHANGED videoImage
       ELSE /\ StartVideo(result, l1, c)
            /\ UNCHANGED <<handler, userFeedback>>

\* the awaited critiqueGeneratedImage call is started
StartCritique(n, image, l, c) ==
    /\ step' = CRITIQUING
    /\ logs' = addLog(l, "Agent is critiquing concept (Cycle "
                          \o ToString(n + 1) \o ")...", "warning")
    /\ calls' = Append(c, Call("critiqueGeneratedImage", 0, image, 0, ""))
    /\ pc' = "critiqueGeneratedImage"
    /\ response' = Pending

\* generateAvatarImage returned V1: the loop state is initialised and the
\* first iteration starts
FirstImageReturns ==
    /\ pc = "generateAvatarImage:V1"
    /\ response.status = "fulfilled"
    /\ genPrompts' = Append(genPrompts, currentPrompt)
    /\ currentImage' = 1
    /\ generatedImage' = 1
    /\ loops' = 0
    /\ bestImage' = 1
    /\ bestScore' = 0
    /\ isSatisfied' = FALSE
    /\ loopStarted' = TRUE
    /\ IF LoopContinues(0, FALSE)
       THEN /\ StartCritique(0, 1, addLog(logs, "Concept V1 generated.", "info"), calls)
            /\ UNCHANGED <<userFeedback, handler, videoImage, loopEnded, restored>>
       ELSE /\ AfterLoop(1, 1, 1, FALSE, addLog(logs, "Concept V1 generated.", "info"),
                         calls)
    /\ UNCHANGED <<isKeyReady, generatedPrompt, generatedVideoUrl, error,
                   critique, loopCount, currentPrompt, crit, criticScript, serviceVars>>

\* critiqueGeneratedImage returned a critique with the score response.value
CritiqueReturns ==
    /\ pc = "critiqueGeneratedImage"
    /\ response.status = "fulfilled"
    /\ LET score == response.value
           l1 == addLog(addLog(logs, QualityScoreMessage, ScoreSeverity(score)),
                        "Critique: <feedback>", "info")
       IN
       /\ critique' = <<score>>
       /\ crit' = Append(crit, [image |-> currentImage, score |-> score])
       /\ bestScore' = TrackBestScore(score, bestScore)
       /\ bestImage' = TrackBestImage(score, bestScore, currentImage, bestImage)
       /\ isSatisfied' = MeetsThreshold(score)
       /\ IF MeetsThreshold(score)
          THEN AfterLoop(currentImage, generatedImage, bestImage', TRUE,
                         addLog(l1, "Quality threshold met (>85%).", "success"),
                         calls)
          ELSE /\ step' = REFINING
               /\ logs' = addLog(l1, "Refining prompt based on critique...", "info")
               /\ calls' = Append(calls, Call("refinePrompt", currentPrompt,
                                              NoImage, score, ""))
               /\ pc' = "refinePrompt"
               /\ response' = Pending
               /\ UNCHANGED <<generatedImage, userFeedback, handler,
                              currentImage, videoImage, loopEnded, restored>>
    /\ UNCHANGED <<isKeyReady, generatedPrompt, generatedVideoUrl, error,
                   loopCount, currentPrompt, loops, loopStarted, genPrompts,
                   criticScript, serviceVars>>

\* refinePrompt returned inside the loop; the next image is requested
RefineReturns ==
    /\ pc = "refinePrompt"
    /\ response.status = "fulfilled"
    /\ currentPrompt' = refinePrompt(response.value)
    /\ generatedPrompt' = currentPrompt'
    /\ step' = GENERATING_IMAGE
    /\ logs' = addLog(logs, "Regenerating Concept (V" \o ToString(loops + 2)
                             \o ")...", "info")
    /\ calls' = Append(calls, Call("generateAvatarImage", currentPrompt',
                                   NoImage, 0, ""))
    /\ pc' = "generateAvatarImage"
    /\ response' = Pending
    /\ UNCHANGED <<isKeyReady, generatedImage, generatedVideoUrl, error,
                   critique, loopCount, userFeedback, handler, currentImage,
                   loops, bestImage, bestScore, isSatisfied, videoImage,
                   histVarsButCalls, criticScript, serviceVars>>

\* generateAvatarImage returned the next image; the iteration ends and the
\* loop condition is evaluated again
NextImageReturns ==
    /\ pc = "generateAvatarImage"
    /\ response.status = "fulfilled"
    /\ genPrompts' = Append(genPrompts, currentPrompt)
    /\ loops' = loops + 1
    /\ loopCount' = loops'
    /\ LET nextImage == Len(genPrompts')
       IN IF LoopContinues(loops', isSatisfied)
          THEN /\ currentImage' = nextImage
               /\ generatedImage' = nextImage
               /\ StartCritique(loops', nextImage, logs, calls)
               /\ UNCHANGED <<userFeedback, handler, videoImage, loopEnded, restored>>
          ELSE AfterLoop(nextImage, nextImage, bestImage, isSatisfied, logs, calls)
    /\ UNCHANGED <<isKeyReady, generatedPrompt, generatedVideoUrl, error,
                   critique, currentPrompt, bestImage, bestScore, isSatisfied,
                   loopStarted, crit, criticScript, serviceVars>>

\* the awaited adapter calls of executeGenerationLoop
AdapterCalls == {"optimizePrompt", "refinePrompt:feedback", "generateAvatarImage:V1",
                 "critiqueGeneratedImage", "refinePrompt", "generateAvatarImage"}

\* text shown for an exception: err.message || "An unexpected error occurred"
ErrorText(message) == IF message # "" THEN message ELSE "An unexpected error occurred"

\* variant: the catch block logs the failure but leaves the status alone
CatchAdapterError_NoStatus(message) ==
    /\ error' = <<ErrorText(message)>>
    /\ step' = step
    /\ logs' = addLog(logs, "Error: " \o message, "error")
    /\ pc' = "idle"
    /\ response' = NoCall
    /\ calls' = calls

\* the catch block of executeGenerationLoop
CatchAdapterError(message) ==
    /\ error' = <<ErrorText(message)>>
    /\ step' = ERROR
    /\ logs' = addLog(logs, "Error: " \o message, "error")
    /\ pc' = "idle"
    /\ response' = NoCall
    /\ calls' = calls

\* an awaited adapter call of executeGenerationLoop threw
AdapterThrows ==
    /\ pc \in AdapterCalls
    /\ response.status = "rejected"
    /\ CatchAdapterError(response.message)
    /\ handler' = "none"
    /\ userFeedback' = HandlerEnd(userFeedback)
    /\ UNCHANGED <<isKeyReady, generatedPrompt, generatedImage, generatedVideoUrl,
                   critique, loopCount, localVars, histVarsButCalls, criticScript, serviceVars>>

\* ------------------------------------------------ startVideoGeneration
\* "Approve & Generate Video"
handleApprove ==
    /\ ApproveShown
    /\ generatedImage # NoImage
    /\ handler' = "approve"
    /\ StartVideo(generatedImage, logs, calls)
    /\ UNCHANGED <<isKeyReady, generatedPrompt, generatedImage, generatedVideoUrl,
                   error, critique, loopCount, userFeedback, currentPrompt,
                   currentImage, loops, bestImage, bestScore, isSatisfied,
                   histVarsButCalls, criticScript, serviceVars>>

\* generateAvatarVideo returned the video URI; the download is started
VideoReturns ==
    /\ pc = "generateAvatarVideo"
    /\ response.status = "fulfilled"
    /\ logs' = addLog(logs, "Video generated. Fetching stream...", "info")
    /\ calls' = Append(calls, Call("fetch", 0, videoImage, 0, ""))
    /\ pc' = "fetch"
    /\ response' = Pending
    /\ UNCHANGED <<stateVarsButLogs, handler, localVars, histVarsButCalls,
                   criticScript, serviceVars>>

\* the catch block of startVideoGeneration
VideoCatch(message) ==
    /\ error' = <<message>>
    /\ step' = ERROR
    /\ logs' = addLog(logs, "Video Error: " \o message, "error")
    /\ pc' = "idle"
    /\ response' = NoCall
    /\ handler' = "none"
    /\ userFeedback' = HandlerEnd(userFeedback)
    /\ UNCHANGED <<isKeyReady, generatedPrompt, generatedImage, generatedVideoUrl,
                   critique, loopCount, localVars, histVars, criticScript, serviceVars>>

\* generateAvatarVideo, fetch or response.blob() threw
VideoThrows ==
    /\ pc \in {"generateAvatarVideo", "fetch", "blob"}
    /\ response.status = "rejected"
    /\ VideoCatch(response.message)

\* fetch resolved with a response
FetchReturns ==
    /\ pc = "fetch"
    /\ response.status = "fulfilled"
    /\ IF response.value = 1
       THEN /\ pc' = "blob"
            /\ response' = Pending
            /\ UNCHANGED <<stateVars, handler, localVars, histVars, criticScript, serviceVars>>
       ELSE VideoCatch("Video download failed")

\* response.blob() resolved: the video is ready
BlobReturns ==
    /\ pc = "blob"
    /\ response.status = "fulfilled"
    /\ generatedVideoUrl' = <<"blob:video">>
    /\ logs' = addLog(logs, "Final asset ready.", "success")
    /\ step' = COMPLETE
    /\ pc' = "idle"
    /\ response' = NoCall
    /\ handler' = "none"
    /\ userFeedback' = HandlerEnd(userFeedback)
    /\ UNCHANGED <<isKeyReady, generatedPrompt, generatedImage, error, critique,
                   loopCount, localVars, histVars, criticScript, serviceVars>>

\* "Try Again" / "Start Over"
reset ==
    /\ ResetShown
    /\ step' = INPUT
    /\ generatedImage' = NoImage
    /\ generatedVideoUrl' = <<>>
    /\ generatedPrompt' = 0
    /\ critique' = <<>>
    /\ error' = <<>>
    /\ userFeedback' = ""
    /\ UNCHANGED <<isKeyReady, logs, loopCount, pc, response, handler, localVars,
                   histVars, criticScript, serviceVars>>

AllScores ==
    Scores \cup InvalidScores \cup {criticScript[i] : i \in 1..Len(criticScript)}

Next ==
    \/ SetKeyReady
    \/ \E text \in Feedbacks : SetUserFeedback(text)
    \/ handleSubmit
    \/ handleUserRefine
    \/ handleApprove
    \/ reset
    \/ \E v \in AllScores \cup {0, 1} : ProviderFulfils(v)
    \/ \E message \in ErrMsgs : ProviderRejects(message)
    \/ OptimizeReturns
    \/ FeedbackRefineReturns
    \/ FirstImageReturns
    \/ CritiqueReturns
    \/ RefineReturns
    \/ NextImageReturns
    \/ AdapterThrows
    \/ VideoReturns
    \/ VideoThrows
    \/ FetchReturns
    \/ BlobReturns

Spec == Init /\ [][Next]_vars

\* The steps that are not the user's: a provider settles the awaited call,
\* or the handler continues after the call it awaited.
RunStep ==
    \/ \E v \in AllScores \cup {0, 1} : ProviderFulfils(v)
    \/ \E message \in ErrMsgs : ProviderRejects(message)
    \/ OptimizeReturns
    \/ FeedbackRefineReturns
    \/ FirstImageReturns
    \/ CritiqueReturns
    \/ RefineReturns
    \/ NextImageReturns
    \/ AdapterThrows
    \/ VideoReturns
    \/ VideoThrows
    \/ FetchReturns
    \/ BlobReturns

\* Every provider call eventually returns or throws, and the event loop
\* runs the continuation of a settled call; the user is not obliged to act.
FairSpec == Spec /\ WF_vars(RunStep)

\* A user action is offered only while no provider call is awaited and no
\* handler is running, so the single set of run locals is all there is.
HandlersExclusive ==
    (SubmitShown \/ ApproveShown \/ FeedbackShown \/ ResetShown)
        => (pc = "idle" /\ handler = "none" /\ response = NoCall)


\* ------------------------------------------- promises of the services
\* the texts the user can type as name and as description
Names == {"", " ", "Nova"}

\* an error message is the sequence of its words
ProviderMessages == { <<"Internal", "error">>, <<"server", "unavailable">>,
                      <<"safety", "filter">> }

\* the Gemini operation object: done, metadata.state, error (<<>> when
\* absent, else <<message>>) and whether the response holds a video URI
Operation(done, state, err, uri) ==
    [done |-> done, state |-> state, error |-> err, uri |-> uri]
Operations ==
    {Operation(FALSE, "RUNNING", <<>>, FALSE),
     Operation(TRUE, "SUCCEEDED", <<>>, TRUE),
     Operation(TRUE, "SUCCEEDED", <<>>, FALSE)}
    \cup {Operation(TRUE, "SUCCEEDED", <<m>>, FALSE) : m \in ProviderMessages}
    \cup {Operation(d, "FAILED", e, FALSE) :
            d \in BOOLEAN, e \in {<<>>} \cup {<<m>> : m \in ProviderMessages}}

\* the Tripo task status object
TaskStatuses == {"queued", "running", "success", "failed", "banned",
                 "expired", "cancelled", "unknown"}
Progresses == {0, 100}
Tasks == [status : TaskStatuses, progress : Progresses]

\* the output of a successful task: which of its URLs are present
TaskOutputs == [model : BOOLEAN, pbr_model : BOOLEAN, rendered_image : BOOLEAN]

\* how long a status request can take, in ms
FetchTimes == {0, 2000}

\* values of the argument maxWaitMs
MaxWaitValues == {-1, 0, 10000}

\* variant: 'unknown' is not among the statuses that end the task
FailedStatuses_NoUnknown == {"failed", "banned", "expired", "cancelled"}

\* statuses that end the task without success
FailedStatuses == {"failed", "banned", "expired", "cancelled", "unknown"}

\* recorded polling sleeps of the current attempt of generateAvatarVideo
RECURSIVE TrailingPolls(_)
TrailingPolls(ds) ==
    IF ds = <<>> \/ ds[Len(ds)].why # "poll" THEN 0
    ELSE 1 + TrailingPolls(SubSeq(ds, 1, Len(ds) - 1))

\* what the awaited call can resolve with
ServiceResults ==
    CASE awaited = "fetch" -> {0, 1}
      [] awaited \in {"generateVideos", "getVideosOperation"} -> Operations
      [] awaited = "getTaskStatus" -> Tasks
      [] awaited = "waitForTaskCompletion" -> TaskOutputs
      [] OTHER -> {1}

\* what the awaited call can reject with; a timer never rejects
ServiceErrors ==
    CASE awaited \in {"delay:poll", "delay:retry", "delay:pollInterval"} -> {}
      [] awaited \in {"generateVideos", "getVideosOperation"} -> ProviderMessages
      [] OTHER -> ErrMsgs

PromiseFulfils(v) ==
    /\ promise.status = "pending"
    /\ v \in ServiceResults
    /\ promise' = Fulfilled(v)
    /\ UNCHANGED <<agentVars, model3DVars, program, awaited, pipelineVars, videoVars, pollVars>>

\* a promise rejected with an Error object whose message is a word sequence
RejectedWith(err) == [status |-> "rejected", value |-> err, message |-> ""]

PromiseRejects(message) ==
    /\ promise.status = "pending"
    /\ message \in ServiceErrors
    /\ promise' = IF awaited \in {"generateVideos", "getVideosOperation"}
                  THEN RejectedWith([message |-> message])
                  ELSE Rejected(message)
    /\ UNCHANGED <<agentVars, model3DVars, program, awaited, pipelineVars, videoVars, pollVars>>

\* ------------------------------------------------------------ generateAll
isGenerating == phase \notin {"idle", "complete", "error"}

setName(text) ==
    /\ program = "generateAll"
    /\ ~isGenerating
    /\ name' = text
    /\ UNCHANGED <<agentVars, model3DVars, program, awaited, promise, description,
                   includeVideo, phase, appLogs, appError, avatarImage,
                   videoUrl, model3DUrl, videoVars, pollVars>>

setDescription(text) ==
    /\ program = "generateAll"
    /\ ~isGenerating
    /\ description' = text
    /\ UNCHANGED <<agentVars, model3DVars, program, awaited, promise, name, includeVideo,
                   phase, appLogs, appError, avatarImage, videoUrl,
                   model3DUrl, videoVars, pollVars>>

setIncludeVideo(checked) ==
    /\ program = "generateAll"
    /\ ~isGenerating
    /\ includeVideo' = checked
    /\ UNCHANGED <<agentVars, model3DVars, program, awaited, promise, name, description,
                   phase, appLogs, appError, avatarImage, videoUrl,
                   model3DUrl, videoVars, pollVars>>

\* the main button while phase is neither 'complete' nor 'error'
generateAll ==
    /\ program = "generateAll"
    /\ ~isGenerating
    /\ phase \notin {"complete", "error"}
    /\ IF Trim(name) = "" \/ Trim(description) = ""
       THEN /\ appError' = <<"Please enter a name and description">>
            /\ UNCHANGED <<phase, appLogs, avatarImage, videoUrl, model3DUrl,
                           awaited, promise>>
       ELSE /\ appError' = <<>>
            /\ phase' = "generating-image"
            /\ avatarImage' = NoImage
            /\ videoUrl' = <<>>
            /\ model3DUrl' = <<>>
            /\ appLogs' = addLog(addLog(<<>>,
                              "Starting avatar generation...", "info"),
                              "Optimizing prompt with AI...", "info")
            /\ awaited' = "optimizePrompt"
            /\ promise' = Pending
    /\ UNCHANGED <<agentVars, model3DVars, program, name, description, includeVideo,
                   videoVars, pollVars>>

\* optimizePrompt returned: the image is requested
PipelinePromptReturns ==
    /\ program = "generateAll"
    /\ awaited = "optimizePrompt"
    /\ promise.status = "fulfilled"
    /\ appLogs' = addLog(addLog(appLogs, "Prompt optimized", "success"),
                         "Generating avatar image...", "info")
    /\ awaited' = "generateAvatarImage"
    /\ promise' = Pending
    /\ UNCHANGED <<agentVars, model3DVars, program, name, description, includeVideo, phase,
                   appError, avatarImage, videoUrl, model3DUrl, videoVars,
                   pollVars>>

\* Phase 3 begins: generate3DModel is awaited
Start3D(l) ==
    /\ phase' = "generating-3d"
    /\ appLogs' = addLog(addLog(l, "Starting 3D model generation...", "info"),
                         "Uploading avatar to Tripo3D...", "info")
    /\ awaited' = "generate3DModel"
    /\ promise' = Pending

\* generateAvatarImage returned: the image is stored and Phase 2 or 3 begins
PipelineImageReturns ==
    /\ program = "generateAll"
    /\ awaited = "generateAvatarImage"
    /\ promise.status = "fulfilled"
    /\ avatarImage' = promise.value
    /\ IF includeVideo
       THEN /\ phase' = "generating-video"
            /\ appLogs' = addLog(addLog(appLogs, "Avatar image generated!",
                              "success"),
                              "Initializing video generation...", "info")
            /\ awaited' = "generateAvatarVideo"
            /\ promise' = Pending
       ELSE Start3D(addLog(addLog(appLogs, "Avatar image generated!",
                       "success"),
                       "Video generation skipped (not selected)", "info"))
    /\ UNCHANGED <<agentVars, model3DVars, program, name, description, includeVideo,
                   appError, videoUrl, model3DUrl, videoVars, pollVars>>

\* the outer catch: optimizePrompt or generateAvatarImage threw
PipelineCatch ==
    /\ program = "generateAll"
    /\ awaited \in {"optimizePrompt", "generateAvatarImage"}
    /\ promise.status = "rejected"
    /\ appError' = <<promise.message>>
    /\ phase' = "error"
    /\ appLogs' = addLog(appLogs, "Error: " \o promise.message, "error")
    /\ awaited' = "none"
    /\ promise' = NoCall
    /\ UNCHANGED <<agentVars, model3DVars, program, name, description, includeVideo,
                   avatarImage, videoUrl, model3DUrl, videoVars, pollVars>>

\* generateAvatarVideo returned the URI: the download is started
PipelineVideoReturns ==
    /\ program = "generateAll"
    /\ awaited = "generateAvatarVideo"
    /\ promise.status = "fulfilled"
    /\ appLogs' = addLog(appLogs, "Downloading video...", "info")
    /\ awaited' = "fetch"
    /\ promise' = Pending
    /\ UNCHANGED <<agentVars, model3DVars, program, name, description, includeVideo, phase,
                   appError, avatarImage, videoUrl, model3DUrl, videoVars,
                   pollVars>>

\* fetch resolved with a response
PipelineFetchReturns ==
    /\ program = "generateAll"
    /\ awaited = "fetch"
    /\ promise.status = "fulfilled"
    /\ IF promise.value = 1
       THEN /\ awaited' = "blob"
            /\ promise' = Pending
            /\ UNCHANGED <<phase, appLogs>>
       ELSE Start3D(addLog(appLogs, "Video download failed, continuing...",
                           "warning"))
    /\ UNCHANGED <<agentVars, model3DVars, program, name, description, includeVideo,
                   appError, avatarImage, videoUrl, model3DUrl, videoVars,
                   pollVars>>

\* response.blob() resolved: the video is stored and Phase 3 begins
PipelineBlobReturns ==
    /\ program = "generateAll"
    /\ awaited = "blob"
    /\ promise.status = "fulfilled"
    /\ videoUrl' = <<"blob:video">>
    /\ Start3D(addLog(appLogs, "Video generated!", "success"))
    /\ UNCHANGED <<agentVars, model3DVars, program, name, description, includeVideo,
                   appError, avatarImage, model3DUrl, videoVars, pollVars>>

\* severity of the entry the catch of the video phase writes
VideoFailureSeverity == "warning"

\* the inner catch of Phase 2: the video is skipped and Phase 3 begins
PipelineVideoCatch ==
    /\ program = "generateAll"
    /\ awaited \in {"generateAvatarVideo", "fetch", "blob"}
    /\ promise.status = "rejected"
    /\ Start3D(addLog(appLogs, "Video generation skipped: " \o promise.message,
                      VideoFailureSeverity))
    /\ UNCHANGED <<agentVars, model3DVars, program, name, description, includeVideo,
                   appError, avatarImage, videoUrl, model3DUrl, videoVars,
                   pollVars>>

\* variant: the pipeline ends in the error phase
PipelineCompletes_AsError(l) ==
    /\ phase' = "error"
    /\ appLogs' = addLog(l, "All assets ready!", "success")
    /\ awaited' = "none"
    /\ promise' = NoCall

\* the end of the try block: setPhase('complete')
PipelineCompletes(l) ==
    /\ phase' = "complete"
    /\ appLogs' = addLog(l, "All assets ready!", "success")
    /\ awaited' = "none"
    /\ promise' = NoCall

\* generate3DModel reports progress through the callback generateAll gave it
PipelineProgress ==
    /\ program = "generateAll"
    /\ awaited = "generate3DModel"
    /\ promise.status = "pending"
    /\ Len(appLogs) < MaxAppLogLen
    /\ appLogs' = addLog(appLogs, "progress", "info")
    /\ UNCHANGED <<agentVars, model3DVars, program, awaited, promise, name, description,
                   includeVideo, phase, appError, avatarImage, videoUrl,
                   model3DUrl, videoVars, pollVars>>

\* generate3DModel returned the model
Pipeline3DReturns ==
    /\ program = "generateAll"
    /\ awaited = "generate3DModel"
    /\ promise.status = "fulfilled"
    /\ model3DUrl' = <<"blob:model">>
    /\ PipelineCompletes(addLog(appLogs, "3D model generated!", "success"))
    /\ UNCHANGED <<agentVars, model3DVars, program, name, description, includeVideo,
                   appError, avatarImage, videoUrl, videoVars, pollVars>>

\* severity of the entry the catch of the 3D phase writes
Model3DFailureSeverity == "error"

\* the inner catch of Phase 3
Pipeline3DCatch ==
    /\ program = "generateAll"
    /\ awaited = "generate3DModel"
    /\ promise.status = "rejected"
    /\ PipelineCompletes(addLog(appLogs,
                           "3D generation failed: " \o promise.message,
                           Model3DFailureSeverity))
    /\ UNCHANGED <<agentVars, model3DVars, program, name, description, includeVideo,
                   appError, avatarImage, videoUrl, model3DUrl, videoVars,
                   pollVars>>

\* the main button while phase is 'complete' or 'error'
App_reset ==
    /\ program = "generateAll"
    /\ ~isGenerating
    /\ phase \in {"complete", "error"}
    /\ phase' = "idle"
    /\ appLogs' = <<>>
    /\ appError' = <<>>
    /\ avatarImage' = NoImage
    /\ videoUrl' = <<>>
    /\ model3DUrl' = <<>>
    /\ UNCHANGED <<agentVars, model3DVars, program, awaited, promise, name, description,
                   includeVideo, videoVars, pollVars>>

InitPipeline ==
    /\ AgentLoopIdle
    /\ criticScript = <<>>
    /\ program = "generateAll"
    /\ ServicesIdle

NextPipeline ==
    \/ \E text \in Names : setName(text)
    \/ \E text \in Names : setDescription(text)
    \/ \E checked \in BOOLEAN : setIncludeVideo(checked)
    \/ generateAll
    \/ App_reset
    \/ \E v \in ServiceResults : PromiseFulfils(v)
    \/ \E message \in ServiceErrors : PromiseRejects(message)
    \/ PipelinePromptReturns
    \/ PipelineImageReturns
    \/ PipelineCatch
    \/ PipelineVideoReturns
    \/ PipelineFetchReturns
    \/ PipelineBlobReturns
    \/ PipelineVideoCatch
    \/ PipelineProgress
    \/ Pipeline3DReturns
    \/ Pipeline3DCatch

\* the single-pass pipeline alone
SpecPipeline == InitPipeline /\ [][NextPipeline]_vars

\* either App of the repository: the agent loop or the single-pass pipeline
InitApps == Init \/ InitPipeline

NextApps ==
    \/ program = "AgentLoop" /\ Next
    \/ NextPipeline

SpecApps == InitApps /\ [][NextApps]_vars

\* ------------------------------------------------ generateAvatarVideo
\* String.prototype.toLowerCase on a word of a message
toLowerCase(word) ==
    CASE word = "Internal" -> "internal"
      [] word = "Veo" -> "veo"
      [] word = "State" -> "state"
      [] word = "FAILED:" -> "failed:"
      [] word = "Operation" -> "operation"
      [] word = "Error:" -> "error:"
      [] word = "Unknown" -> "unknown"
      [] word = "Video" -> "video"
      [] word = "URI" -> "uri"
      [] OTHER -> word

\* message?.toLowerCase().includes(text), for a text that is one word
includes(message, text) ==
    \E i \in 1..Len(message) : toLowerCase(message[i]) = text

isInternalError(message) ==
    includes(message, "internal") \/ includes(message, "server")

\* variant: every error is retried while attempts remain
ShouldRetry_AnyError(n, message) == n < MAX_RETRIES

\* variant: one more attempt than MAX_RETRIES
ShouldRetry_OneMore(n, message) == n <= MAX_RETRIES /\ isInternalError(message)

\* attempt < MAX_RETRIES && isInternalError
ShouldRetry(n, message) == n < MAX_RETRIES /\ isInternalError(message)

\* variant: the sleep grows with the attempt number
RetryDelay_Growing(n) == RETRY_DELAY_MS * n

\* delay(4000) before the retry that follows attempt n
RetryDelay(n) == RETRY_DELAY_MS

\* ai.models.generateVideos is requested for attempt n
StartOperation(n) ==
    /\ attempt' = n
    /\ operations' = operations + 1
    /\ awaited' = "generateVideos"
    /\ promise' = Pending

\* the call: attempt 1 begins
generateAvatarVideo ==
    /\ program = "generateAvatarVideo"
    /\ awaited = "none"
    /\ videoOutcome = <<>>
    /\ lastError' = <<>>
    /\ StartOperation(1)
    /\ UNCHANGED <<agentVars, model3DVars, program, pipelineVars, failures, delays,
                   videoOutcome, pollVars>>

\* the catch block: err is an Error with this message; failedState tells
\* that it reports an operation in state FAILED
VideoAttemptCatch(message, failedState) ==
    /\ lastError' = <<message>>
    /\ failures' = Append(failures, [attempt |-> attempt, message |-> message,
                                     failedState |-> failedState])
    /\ IF ShouldRetry(attempt, message)
       THEN /\ delays' = Append(delays, [why |-> "retry",
                                         ms |-> RetryDelay(attempt)])
            /\ awaited' = "delay:retry"
            /\ promise' = Pending
            /\ UNCHANGED videoOutcome
       ELSE /\ videoOutcome' = <<[kind |-> "thrown", error |-> message]>>
            /\ awaited' = "none"
            /\ promise' = NoCall
            /\ UNCHANGED delays
    /\ UNCHANGED <<attempt, operations>>

\* generateVideos or getVideosOperation resolved with an operation object
OperationArrives ==
    /\ program = "generateAvatarVideo"
    /\ awaited \in {"generateVideos", "getVideosOperation"}
    /\ promise.status = "fulfilled"
    /\ LET operation == promise.value
           failureMsg == IF operation.error # <<>> THEN operation.error[1]
                         ELSE <<"Unknown", "error">>
       IN
       IF awaited = "getVideosOperation" /\ operation.state = "FAILED"
       THEN VideoAttemptCatch(<<"Veo", "State", "FAILED:">> \o failureMsg, TRUE)
       ELSE IF ~operation.done
       THEN /\ delays' = IF TrailingPolls(delays) < MaxPolls
                          THEN Append(delays, [why |-> "poll",
                                               ms |-> POLL_DELAY_MS])
                          ELSE delays
            /\ awaited' = "delay:poll"
            /\ promise' = Pending
            /\ UNCHANGED <<attempt, lastError, operations, failures, videoOutcome>>
       ELSE IF operation.error # <<>>
       THEN VideoAttemptCatch(<<"Veo", "Operation", "Error:">>
                                  \o operation.error[1], FALSE)
       ELSE IF ~operation.uri
       THEN VideoAttemptCatch(<<"Video", "URI", "not", "found", "in",
                                "response">>, FALSE)
       ELSE /\ videoOutcome' = <<[kind |-> "returned", attempt |-> attempt]>>
            /\ awaited' = "none"
            /\ promise' = NoCall
            /\ UNCHANGED <<attempt, lastError, operations, failures, delays>>
    /\ UNCHANGED <<agentVars, model3DVars, program, pipelineVars, pollVars>>

\* generateVideos or getVideosOperation threw
OperationThrows ==
    /\ program = "generateAvatarVideo"
    /\ awaited \in {"generateVideos", "getVideosOperation"}
    /\ promise.status = "rejected"
    /\ VideoAttemptCatch(promise.value.message, FALSE)
    /\ UNCHANGED <<agentVars, model3DVars, program, pipelineVars, pollVars>>

\* delay(5000) is over: the operation is polled
PollDelayEnds ==
    /\ program = "generateAvatarVideo"
    /\ awaited = "delay:poll"
    /\ promise.status = "fulfilled"
    /\ awaited' = "getVideosOperation"
    /\ promise' = Pending
    /\ UNCHANGED <<agentVars, model3DVars, program, pipelineVars, videoVars, pollVars>>

\* delay(4000) is over: `continue` starts the next attempt
RetryDelayEnds ==
    /\ program = "generateAvatarVideo"
    /\ awaited = "delay:retry"
    /\ promise.status = "fulfilled"
    /\ StartOperation(attempt + 1)
    /\ UNCHANGED <<agentVars, model3DVars, program, pipelineVars, lastError, failures,
                   delays, videoOutcome, pollVars>>

\* ------------------------------------------------ waitForTaskCompletion
\* variant: the loop has no wait budget
PollLoop_NoTimeout(e, maxWait) ==
    /\ awaited' = "getTaskStatus"
    /\ promise' = Pending
    /\ UNCHANGED pollOutcome

\* the head of the while loop, evaluated when Date.now() - startTime is e
\* and the argument maxWaitMs is maxWait
PollLoop(e, maxWait) ==
    IF e < maxWait
    THEN /\ awaited' = "getTaskStatus"
         /\ promise' = Pending
         /\ UNCHANGED pollOutcome
    ELSE /\ pollOutcome' = <<[kind |-> "thrown", error |-> "Task timed out"]>>
         /\ awaited' = "none"
         /\ promise' = NoCall

\* the call
waitForTaskCompletion(onProgress, maxWait) ==
    /\ program = "waitForTaskCompletion"
    /\ awaited = "none"
    /\ pollOutcome = <<>>
    /\ fetched = <<>>
    /\ hasOnProgress' = onProgress
    /\ maxWaitMs' = maxWait
    /\ elapsed' = 0
    /\ PollLoop(0, maxWait)
    /\ UNCHANGED <<agentVars, model3DVars, program, pipelineVars, videoVars, fetched,
                   progressCalls>>

\* variant: the callback is skipped for the terminal status
ReportsProgress_NotTerminal(status) ==
    hasOnProgress /\ status \in {"queued", "running"}

\* if (onProgress) onProgress(status.progress, status.status)
ReportsProgress(status) == hasOnProgress

\* getTaskStatus resolved, t ms after it was requested
StatusArrives(t) ==
    /\ program = "waitForTaskCompletion"
    /\ awaited = "getTaskStatus"
    /\ promise.status = "fulfilled"
    /\ LET status == promise.value IN
       /\ fetched' = Append(fetched, status)
       /\ progressCalls' =
              IF ReportsProgress(status.status)
              THEN Append(progressCalls, <<status.progress, status.status>>)
              ELSE progressCalls
       /\ IF status.status = "success"
          THEN /\ pollOutcome' = <<[kind |-> "returned", status |-> status]>>
               /\ awaited' = "none"
               /\ promise' = NoCall
          ELSE IF status.status \in FailedStatuses
          THEN /\ pollOutcome' = <<[kind |-> "thrown",
                                    error |-> "Task " \o status.status]>>
               /\ awaited' = "none"
               /\ promise' = NoCall
          ELSE /\ awaited' = "delay:pollInterval"
               /\ promise' = Pending
               /\ UNCHANGED pollOutcome
    /\ elapsed' = elapsed + t
    /\ UNCHANGED <<agentVars, model3DVars, program, pipelineVars, videoVars, maxWaitMs,
                   hasOnProgress>>

\* getTaskStatus threw: the error leaves waitForTaskCompletion
StatusThrows ==
    /\ program = "waitForTaskCompletion"
    /\ awaited = "getTaskStatus"
    /\ promise.status = "rejected"
    /\ pollOutcome' = <<[kind |-> "thrown", error |-> promise.message]>>
    /\ awaited' = "none"
    /\ promise' = NoCall
    /\ UNCHANGED <<agentVars, model3DVars, program, pipelineVars, videoVars, elapsed,
                   maxWaitMs, hasOnProgress, fetched, progressCalls>>

\* delay(pollInterval) is over: back to the head of the loop
PollIntervalEnds ==
    /\ program = "waitForTaskCompletion"
    /\ awaited = "delay:pollInterval"
    /\ promise.status = "fulfilled"
    /\ elapsed' = elapsed + pollInterval
    /\ PollLoop(elapsed + pollInterval, maxWaitMs)
    /\ UNCHANGED <<agentVars, model3DVars, program, pipelineVars, videoVars, maxWaitMs,
                   hasOnProgress, fetched, progressCalls>>

\* ------------------------------------------- the two service functions
InitServices ==
    /\ AgentLoopIdle
    /\ criticScript = <<>>
    /\ program \in {"generateAvatarVideo", "waitForTaskCompletion"}
    /\ ServicesIdle

NextServices ==
    \/ \E v \in ServiceResults : PromiseFulfils(v)
    \/ \E message \in ServiceErrors : PromiseRejects(message)
    \/ generateAvatarVideo
    \/ OperationArrives
    \/ OperationThrows
    \/ PollDelayEnds
    \/ RetryDelayEnds
    \/ \E onProgress \in BOOLEAN, maxWait \in MaxWaitValues :
           waitForTaskCompletion(onProgress, maxWait)
    \/ \E t \in FetchTimes : StatusArrives(t)
    \/ StatusThrows
    \/ PollIntervalEnds

SpecServices == InitServices /\ [][NextServices]_vars

\* every request to a provider is answered, every timer fires, and the code
\* after an await runs once the awaited promise has settled
FairSpecServices == SpecServices /\ WF_vars(NextServices)

\* ------------------------------------------------------------ generate3DModel
\* The awaited calls of generate3DModel are the upload, the task start,
\* waitForTaskCompletion (modelled above; here a call that returns the
\* output of the successful task or throws, and that makes the onProgress
\* calls between 20 and 90 itself), and the downloads of the model and of
\* the preview image.
Request3D(call) ==
    /\ awaited' = call
    /\ promise' = Pending
    /\ requests' = Append(requests, call)

Throw3D(message) ==
    /\ model3DOutcome' = <<[kind |-> "thrown", error |-> message]>>
    /\ awaited' = "none"
    /\ promise' = NoCall

\* the provider URL of an output field, "" when the field is absent
ProviderUrl(out, field) == IF out[field] THEN field ELSE ""

\* variant: the plain model is preferred to the PBR model
ModelSourceUrl_PlainFirst(out) ==
    IF out.model THEN "model" ELSE ProviderUrl(out, "pbr_model")

\* result.output.pbr_model || result.output.model || ''
ModelSourceUrl(out) ==
    IF out.pbr_model THEN "pbr_model" ELSE ProviderUrl(out, "model")

\* variant: no object URL is created, the source URL is kept
CreateObjectURL_KeepsSource(sourceUrl, blob) == sourceUrl

\* localModelUrl = URL.createObjectURL(blob), in place of the source URL
CreateObjectURL(sourceUrl, blob) == "blob:" \o blob

\* the return statement
Return3D(modelUrl, base64, previewUrl) ==
    /\ model3DOutcome' =
          <<[kind |-> "returned",
             modelUrl |-> modelUrl,
             modelBase64 |-> base64,
             pbrModelUrl |-> ProviderUrl(output[1], "pbr_model"),
             renderedImageUrl |-> previewUrl]>>
    /\ awaited' = "none"
    /\ promise' = NoCall

\* the call, up to the upload
generate3DModel ==
    /\ program = "generate3DModel"
    /\ awaited = "none"
    /\ model3DOutcome = <<>>
    /\ requests = <<>>
    /\ onProgressCalls' = Append(onProgressCalls, 10)
    /\ Request3D("uploadImageToTripo")
    /\ UNCHANGED <<agentVars, program, pipelineVars, videoVars, pollVars,
                   output, modelBase64, localModelUrl, localPreviewUrl,
                   model3DOutcome>>

\* the image token arrived: the task is started
UploadReturns ==
    /\ program = "generate3DModel"
    /\ awaited = "uploadImageToTripo"
    /\ promise.status = "fulfilled"
    /\ onProgressCalls' = Append(onProgressCalls, 20)
    /\ Request3D("startImageToModelTask")
    /\ UNCHANGED <<agentVars, program, pipelineVars, videoVars, pollVars,
                   output, modelBase64, localModelUrl, localPreviewUrl,
                   model3DOutcome>>

\* the task id arrived: the task is polled
TaskStartReturns ==
    /\ program = "generate3DModel"
    /\ awaited = "startImageToModelTask"
    /\ promise.status = "fulfilled"
    /\ Request3D("waitForTaskCompletion")
    /\ UNCHANGED <<agentVars, program, pipelineVars, videoVars, pollVars,
                   output, modelBase64, localModelUrl, localPreviewUrl,
                   onProgressCalls, model3DOutcome>>

\* waitForTaskCompletion returned the successful task: without a model URL
\* the call throws, otherwise the model is downloaded at once
TaskCompletes ==
    /\ program = "generate3DModel"
    /\ awaited = "waitForTaskCompletion"
    /\ promise.status = "fulfilled"
    /\ output' = <<promise.value>>
    /\ IF ~promise.value.model /\ ~promise.value.pbr_model
       THEN /\ Throw3D("No model URL in response")
            /\ UNCHANGED <<requests, localModelUrl, onProgressCalls>>
       ELSE /\ localModelUrl' = ModelSourceUrl(promise.value)
            /\ onProgressCalls' = Append(onProgressCalls, 92)
            /\ Request3D("downloadAsBase64")
            /\ UNCHANGED model3DOutcome
    /\ UNCHANGED <<agentVars, program, pipelineVars, videoVars, pollVars,
                   modelBase64, localPreviewUrl>>

\* the upload, the task start or the polling threw: generate3DModel throws
Model3DThrows ==
    /\ program = "generate3DModel"
    /\ awaited \in {"uploadImageToTripo", "startImageToModelTask",
                    "waitForTaskCompletion"}
    /\ promise.status = "rejected"
    /\ Throw3D(promise.message)
    /\ UNCHANGED <<agentVars, program, pipelineVars, videoVars, pollVars,
                   requests, output, modelBase64, localModelUrl,
                   localPreviewUrl, onProgressCalls>>

\* after the try block of the model: the preview image is downloaded if the
\* task has one, otherwise the call returns
AfterModelDownload(modelUrl, base64) ==
    IF output[1].rendered_image
    THEN /\ localPreviewUrl' = "rendered_image"
         /\ Request3D("downloadAsBase64:preview")
         /\ UNCHANGED model3DOutcome
    ELSE /\ Return3D(modelUrl, base64, "")
         /\ UNCHANGED <<requests, localPreviewUrl>>

\* modelBase64 = await downloadAsBase64(modelSourceUrl)
ModelDownloaded ==
    /\ program = "generate3DModel"
    /\ awaited = "downloadAsBase64"
    /\ promise.status = "fulfilled"
    /\ modelBase64' = TRUE
    /\ Request3D("fetch:modelBase64")
    /\ UNCHANGED <<agentVars, program, pipelineVars, videoVars, pollVars,
                   output, localModelUrl, localPreviewUrl, onProgressCalls,
                   model3DOutcome>>

\* const response = await fetch(modelBase64)
ModelFetched ==
    /\ program = "generate3DModel"
    /\ awaited = "fetch:modelBase64"
    /\ promise.status = "fulfilled"
    /\ Request3D("blob:model")
    /\ UNCHANGED <<agentVars, program, pipelineVars, videoVars, pollVars,
                   output, modelBase64, localModelUrl, localPreviewUrl,
                   onProgressCalls, model3DOutcome>>

\* const blob = await response.blob(); the object URL replaces the source URL
ModelBlobReturns ==
    /\ program = "generate3DModel"
    /\ awaited = "blob:model"
    /\ promise.status = "fulfilled"
    /\ localModelUrl' = CreateObjectURL(localModelUrl, "model")
    /\ onProgressCalls' = Append(onProgressCalls, 98)
    /\ AfterModelDownload(localModelUrl', modelBase64)
    /\ UNCHANGED <<agentVars, program, pipelineVars, videoVars, pollVars,
                   output, modelBase64>>

\* catch (downloadErr): a warning on the console, localModelUrl stays the
\* provider's URL
ModelDownloadCatch ==
    /\ program = "generate3DModel"
    /\ awaited \in {"downloadAsBase64", "fetch:modelBase64", "blob:model"}
    /\ promise.status = "rejected"
    /\ AfterModelDownload(localModelUrl, modelBase64)
    /\ UNCHANGED <<agentVars, program, pipelineVars, videoVars, pollVars,
                   output, modelBase64, localModelUrl, onProgressCalls>>

\* the preview's download and fetch returned
PreviewStepReturns ==
    /\ program = "generate3DModel"
    /\ awaited \in {"downloadAsBase64:preview", "fetch:previewBase64"}
    /\ promise.status = "fulfilled"
    /\ Request3D(IF awaited = "downloadAsBase64:preview"
                 THEN "fetch:previewBase64" ELSE "blob:preview")
    /\ UNCHANGED <<agentVars, program, pipelineVars, videoVars, pollVars,
                   output, modelBase64, localModelUrl, localPreviewUrl,
                   onProgressCalls, model3DOutcome>>

\* the preview's blob arrived: its object URL is returned
PreviewBlobReturns ==
    /\ program = "generate3DModel"
    /\ awaited = "blob:preview"
    /\ promise.status = "fulfilled"
    /\ localPreviewUrl' = CreateObjectURL(localPreviewUrl, "preview")
    /\ Return3D(localModelUrl, modelBase64, localPreviewUrl')
    /\ UNCHANGED <<agentVars, program, pipelineVars, videoVars, pollVars,
                   requests, output, modelBase64, localModelUrl,
                   onProgressCalls>>

\* catch (e): the preview stays the provider's URL
PreviewCatch ==
    /\ program = "generate3DModel"
    /\ awaited \in {"downloadAsBase64:preview", "fetch:previewBase64",
                    "blob:preview"}
    /\ promise.status = "rejected"
    /\ Return3D(localModelUrl, modelBase64, localPreviewUrl)
    /\ UNCHANGED <<agentVars, program, pipelineVars, videoVars, pollVars,
                   requests, output, modelBase64, localModelUrl,
                   localPreviewUrl, onProgressCalls>>

InitModel3D ==
    /\ AgentLoopIdle
    /\ criticScript = <<>>
    /\ program = "generate3DModel"
    /\ ServicesIdle

NextModel3D ==
    \/ \E v \in ServiceResults : PromiseFulfils(v)
    \/ \E message \in ServiceErrors : PromiseRejects(message)
    \/ generate3DModel
    \/ UploadReturns
    \/ TaskStartReturns
    \/ TaskCompletes
    \/ Model3DThrows
    \/ ModelDownloaded
    \/ ModelFetched
    \/ ModelBlobReturns
    \/ ModelDownloadCatch
    \/ PreviewStepReturns
    \/ PreviewBlobReturns
    \/ PreviewCatch

SpecModel3D == InitModel3D /\ [][NextModel3D]_vars

\* ------------------------------------------------------------ properties
Indices == 1..Len(crit)
ScoreSet == {crit[i].score : i \in Indices}

\* refinePrompt calls made inside the scoring loop (without user feedback)
InLoopRefines ==
    Cardinality({i \in 1..Len(calls) :
                    calls[i].op = "refinePrompt" /\ calls[i].feedback = ""})

\* index in `calls` of the last critique call (0 when there is none)
LastCritiqueCall ==
    LET S == {i \in 1..Len(calls) : calls[i].op = "critiqueGeneratedImage"}
    IN IF S = {} THEN 0 ELSE Max(S)

\* the image of the earliest critique that has the highest score of the run
EarliestBest ==
    crit[CHOOSE i \in Indices :
            /\ crit[i].score = Max(ScoreSet)
            /\ \A j \in 1..(i - 1) : crit[j].score < crit[i].score].image

\* C1: when the scoring loop has ended, bestScore is the maximum of all the
\* scores the critic returned in the run, the critique of V1 included.
C1_BestScoreIsMax ==
    loopEnded => (Len(crit) >= 1 /\ bestScore = Max(ScoreSet))

C1_Witness ==
    loopEnded /\ ScoreSeq = <<50, 84, 0>> /\ bestScore = 84

C3_SatisfiedStopsAtFirst ==
    /\ \A i \in Indices :
          crit[i].score >= QUALITY_THRESHOLD =>
              /\ i = Len(crit)
              /\ isSatisfied /\ loopEnded
              /\ \A j \in (LastCritiqueCall + 1)..Len(calls) :
                    calls[j].op \notin {"generateAvatarImage", "refinePrompt"}
    /\ (criticScript = <<60, 72, 90>> /\ loopEnded) =>
          /\ loops = 2 /\ InLoopRefines = 2 /\ Len(genPrompts) = 3
          /\ isSatisfied
          /\ ScoreSeq = <<60, 72, 90>>
          /\ currentImage = crit[3].image

C3_Witness ==
    /\ criticScript = <<60, 72, 90>> /\ loopEnded /\ isSatisfied
    /\ step = COMPLETE /\ generatedImage = 3

\* C4: the iteration counter (loops, loopCount) stays within
\* 0..MAX_REFINEMENT_LOOPS and a run makes at most 3 refine+regenerate cycles.
C4_IterationsBounded ==
    /\ loops \in 0..MAX_REFINEMENT_LOOPS
    /\ loopCount \in 0..MAX_REFINEMENT_LOOPS
    /\ InLoopRefines <= MAX_REFINEMENT_LOOPS
    /\ Len(genPrompts) <= MAX_REFINEMENT_LOOPS + 1

C4_Witness ==
    loops = 3 /\ loopCount = 3 /\ InLoopRefines = 3 /\ loopEnded

\* C5: within a run, no step of the scoring loop lowers bestScore.
C5_BestScoreMonotonic ==
    [][(loopStarted /\ loopStarted') => bestScore' >= bestScore]_vars

C5_Witness ==
    /\ loopStarted /\ Len(crit) >= 2
    /\ crit[Len(crit)].score < bestScore
    /\ bestScore = crit[1].score /\ bestScore > 0

\* C6 as stated: with the scores [80, 95, 70] the best image is the 2nd, a
\* 3rd image is generated after it and reconciliation restores the 2nd.
C6_Original ==
    (criticScript = <<80, 95, 70>> /\ loopEnded) =>
        /\ bestImage = 2 /\ currentImage = 2
        /\ Len(genPrompts) >= 3
        /\ restored

\* C6 amended: with the scores [80, 95, 70] the run ends satisfied at the 2nd
\* critique (95 >= 85); the 2nd image is the best and the returned one, no
\* 3rd image is generated, the score 70 is never asked for and the
\* reconciliation step restores nothing.
C6_Amended ==
    (criticScript = <<80, 95, 70>> /\ loopEnded) =>
        /\ ScoreSeq = <<80, 95>>
        /\ isSatisfied
        /\ bestImage = 2 /\ bestScore = 95 /\ currentImage = 2
        /\ Len(genPrompts) = 2
        /\ ~restored

C6_Witness ==
    /\ criticScript = <<80, 95, 70>> /\ loopEnded
    /\ step = GENERATING_VIDEO /\ videoImage = 2

\* C7 as stated: with the scores [40, 50, 60] the run makes exactly 3
\* refine+regenerate cycles, ends unsatisfied and returns the image critiqued
\* with 60, which is also the last image the run generated.
C7_Original ==
    (criticScript = <<40, 50, 60>> /\ loopEnded) =>
        /\ loops = 3 /\ InLoopRefines = 3
        /\ ~isSatisfied
        /\ ScoreSeq = <<40, 50, 60>>
        /\ currentImage = crit[3].image
        /\ currentImage = Len(genPrompts)

\* C7 amended: with the scores [40, 50, 60] the run makes exactly 3
\* refine+regenerate cycles, ends unsatisfied and returns the image critiqued
\* with 60, the 3rd; a 4th image is generated after it, is never critiqued,
\* and reconciliation restores the 3rd.
C7_Amended ==
    (criticScript = <<40, 50, 60>> /\ loopEnded) =>
        /\ loops = 3 /\ InLoopRefines = 3
        /\ ~isSatisfied
        /\ ScoreSeq = <<40, 50, 60>>
        /\ currentImage = crit[3].image /\ currentImage = 3
        /\ Len(genPrompts) = 4
        /\ restored
        /\ step = AWAITING_APPROVAL => generatedImage = 3

C7_Witness ==
    /\ criticScript = <<40, 50, 60>> /\ loopEnded
    /\ step = AWAITING_APPROVAL /\ generatedImage = 3

\* C8: the status becomes GeneratingVideo (generateAvatarVideo is started)
\* only at the end of a loop that ended satisfied with a score >= 85, or by
\* handleApprove from AwaitingApproval; AwaitingApproval changes to
\* GeneratingVideo only by handleApprove.
C8_VideoNeedsSatisfactionOrApproval ==
    [][ /\ ((step' = GENERATING_VIDEO /\ step # GENERATING_VIDEO)
              \/ (pc' = "generateAvatarVideo" /\ pc # "generateAvatarVideo")) =>
            /\ step' = GENERATING_VIDEO /\ pc' = "generateAvatarVideo"
            /\ \/ /\ step # AWAITING_APPROVAL
                  /\ loopEnded' /\ isSatisfied'
                  /\ crit'[Len(crit')].score >= QUALITY_THRESHOLD
               \/ /\ step = AWAITING_APPROVAL
                  /\ handleApprove
        /\ (step = AWAITING_APPROVAL /\ step' = GENERATING_VIDEO) => handleApprove
      ]_vars

C8_Witness ==
    /\ step = GENERATING_VIDEO /\ handler = "approve"
    /\ ~isSatisfied /\ bestScore < QUALITY_THRESHOLD

\* C9: when an adapter call awaited by executeGenerationLoop throws, the run
\* starts no further call (the failed one is not retried), the status
\* becomes Error and an entry of severity error with the exception message
\* is appended to the log.
C9_AdapterErrorAborts ==
    [][(pc \in AdapterCalls /\ response.status = "rejected") =>
          /\ step' = ERROR
          /\ pc' = "idle" /\ response' = NoCall /\ handler' = "none"
          /\ calls' = calls
          /\ logs' = Append(logs, Entry("Error: " \o response.message, "error"))
      ]_vars

C9_Witness ==
    /\ step = ERROR /\ pc = "idle"
    /\ Len(crit) = 1 /\ calls[Len(calls)].op = "generateAvatarImage"
    /\ logs[Len(logs)] = Entry("Error: quota exceeded", "error")

\* C10 as stated: once the status is Error it does not change and no provider
\* call is started until reset returns the session to Input.
C10_Original ==
    [][step = ERROR =>
          \/ step' = ERROR /\ pc' = "idle" /\ calls' = calls
          \/ step' = INPUT /\ reset
      ]_vars

\* C10 amended: once the status is Error it does not change and no provider
\* call is started until either reset returns the session to Input or the
\* form is submitted again (handleSubmit), which starts a fresh run from
\* Error directly, without a reset.
C10_Amended ==
    [][step = ERROR =>
          \/ step' = ERROR /\ pc' = "idle" /\ calls' = calls
          \/ step' = INPUT /\ reset
          \/ step' = OPTIMIZING_PROMPT /\ handleSubmit
      ]_vars

C10_Witness ==
    step = OPTIMIZING_PROMPT /\ generatedImage = OldImage /\ pc = "optimizePrompt"


\* ----------------------------------------- failures after the accepted image
\* The agent loop starts the video only for an accepted image (the loop ended
\* satisfied or the user approved).  This step is the code that handles the
\* failure of the video call, of the download or of reading its body.
AgentVideoFailureHandled ==
    /\ program = "AgentLoop"
    /\ pc \in {"generateAvatarVideo", "fetch", "blob"}
    /\ \/ response.status = "rejected"
       \/ pc = "fetch" /\ response.status = "fulfilled" /\ response.value = 0
    /\ response' # response

\* In generateAll the image is accepted once it was generated.  This step is
\* the code that handles the failure of the video phase or of the 3D phase.
PipelineFailureHandled ==
    /\ program = "generateAll"
    /\ awaited \in {"generateAvatarVideo", "fetch", "blob", "generate3DModel"}
    /\ \/ promise.status = "rejected"
       \/ awaited = "fetch" /\ promise.status = "fulfilled" /\ promise.value = 0
    /\ promise' # promise

\* C11 as stated: once an image has been accepted, a failure of video
\* generation, of the video download or of the 3D conversion never moves the
\* session status to Error, and the accepted image stays the session's image.
C11_Original ==
    [][/\ AgentVideoFailureHandled =>
             (step' # ERROR /\ generatedImage' = generatedImage)
       /\ PipelineFailureHandled =>
             (phase' # "error" /\ avatarImage' = avatarImage
                /\ avatarImage # NoImage)
      ]_vars

\* entries a step appended to a log
Appended(before, after) == SubSeq(after, Len(before) + 1, Len(after))

\* the step wrote the failure as a warning and wrote no error entry
LoggedAsWarning(before, after) ==
    /\ Len(after) > Len(before)
    /\ SubSeq(after, 1, Len(before)) = before
    /\ after[Len(before) + 1].type = "warning"
    /\ \A i \in 1..Len(Appended(before, after)) :
           Appended(before, after)[i].type # "error"

\* C12 as stated: every failure of video generation or 3D conversion that
\* happens after an image was accepted is recorded in the log with severity
\* warning, never with severity error.
C12_Original ==
    [][/\ AgentVideoFailureHandled => LoggedAsWarning(logs, logs')
       /\ PipelineFailureHandled => LoggedAsWarning(appLogs, appLogs')
      ]_vars


\* ------------------------------------------------ one call, one run at a time
\* the step starts a provider call of the agent loop
AgentCallStarts ==
    /\ response' = Pending
    /\ response # Pending \/ pc' # pc \/ calls' # calls

\* the step starts a provider call of generateAll
PipelineCallStarts ==
    /\ promise'.status = "pending"
    /\ promise.status # "pending" \/ awaited' # awaited

\* C13: under every interleaving of the user actions the interface allows
\* with the completion of provider calls, at most one provider call is in
\* flight and at most one run is active.  A call starts only when an event
\* handler begins a run while nothing is awaited and no handler is running,
\* or as the continuation of the one active run after its awaited result has
\* arrived; a handler begins only while no handler is running.
C13_OneCallOneRun ==
    [][/\ AgentCallStarts =>
             \/ pc = "idle" /\ response = NoCall /\ handler = "none"
             \/ response.status = "fulfilled" /\ handler' = handler
       /\ (handler' # handler /\ handler' # "none") =>
             (handler = "none" /\ pc = "idle" /\ response = NoCall)
       /\ (pc' = "idle") = (response' = NoCall)
       /\ PipelineCallStarts =>
             \/ awaited = "none" /\ promise.status = "none" /\ ~isGenerating
             \/ promise.status \in {"fulfilled", "rejected"} /\ isGenerating
       /\ (awaited' = "none") = (promise'.status = "none")
       /\ (awaited' = "none") = ~isGenerating'
      ]_vars

\* a resumed run of the agent loop is waiting for the critic
C13_Witness ==
    /\ handler = "refine"
    /\ pc = "critiqueGeneratedImage"
    /\ response = Pending
    /\ loopCount = 2


\* ------------------------------------------------------- feedback resumption
\* C14: submitting human feedback after a result starts a new run whose
\* iteration counter and best-score tracking start again at 0, independent of
\* the counter value and best score of the previous run: until the resumed
\* run has its first image they are 0, and afterwards they count and track
\* the critiques of the resumed run only.
C14_ResumeStartsAtZero ==
    handler = "refine" =>
        /\ ~loopStarted =>
               (loopCount = 0 /\ loops = 0 /\ bestScore = 0 /\ crit = <<>>)
        /\ loopStarted =>
               /\ loopCount = loops
               /\ loops \in {Len(crit) - 1, Len(crit)}
               /\ bestScore = Max({0} \cup ScoreSet)

\* the resumed run waits for its prompt while the session still shows the
\* result of a run that used all 3 iterations with a best score above 0
C14_Witness ==
    /\ handler = "refine"
    /\ pc = "refinePrompt:feedback"
    /\ generatedImage = OldImage
    /\ step = REFINING
    /\ loopCount = 0
    /\ \E i \in 1..Len(logs) : logs[i].message = "Max refinement loops reached."

\* C15 as stated: every submission of non-empty human feedback re-enters the
\* algorithm at the refine step: the resumed run begins with exactly one
\* refinePrompt call that carries the stored prompt, the synthetic critique
\* of score 0 and the feedback text, made before any image is generated;
\* optimizePrompt is not called and the log is not cleared.
C15_Original ==
    [][/\ (handler = "none" /\ handler' = "refine") =>
             /\ Trim(userFeedback) # ""
             /\ pc' = "refinePrompt:feedback"
             /\ calls' = <<Call("refinePrompt", generatedPrompt', NoImage, 0,
                                userFeedback)>>
             /\ Len(logs') > Len(logs)
             /\ SubSeq(logs', 1, Len(logs)) = logs
       /\ handler' = "refine" =>
             /\ calls'[1].op = "refinePrompt" /\ calls'[1].feedback # ""
             /\ \A i \in 2..Len(calls') :
                    calls'[i].op # "optimizePrompt" /\ calls'[i].feedback = ""
      ]_vars

\* ------------------------------------------------------------ retry policy
\* a message that contains 'internal' or 'server' in any letter case
Transient(message) ==
    \E i \in 1..Len(message) :
        message[i] \in {"internal", "Internal", "INTERNAL",
                        "server", "Server", "SERVER"}

\* the sleeps of the retry policy, in order (the polling sleeps left out)
IsRetrySleep(d) == d.why = "retry"
RetrySleeps == SelectSeq(delays, IsRetrySleep)

C17_PermanentErrorThrownAtOnce ==
    \A i \in 1..Len(failures) :
        ~Transient(failures[i].message) =>
            /\ i = Len(failures)
            /\ videoOutcome = <<[kind |-> "thrown", error |-> failures[i].message]>>
            /\ awaited = "none"
            /\ operations = i
            /\ Len(RetrySleeps) = i - 1

\* attempt 2 failed with the safety error after a retried attempt 1
C17_Witness ==
    /\ Len(failures) = 2
    /\ failures[2].message = <<"safety", "filter">>
    /\ videoOutcome = <<[kind |-> "thrown", error |-> <<"safety", "filter">>]>>

\* C18: generateAvatarVideo starts at most 3 video operations per call; if
\* all 3 attempts fail with transient errors the error thrown is that of the
\* 3rd attempt, and no delay is slept after it.
C18_AtMostThreeAttempts ==
    /\ operations <= 3
    /\ attempt <= 3
    /\ Len(failures) <= 3
    /\ (Len(failures) = 3 /\ \A i \in 1..3 : Transient(failures[i].message)) =>
           /\ videoOutcome = <<[kind |-> "thrown", error |-> failures[3].message]>>
           /\ awaited = "none"
           /\ Len(RetrySleeps) = 2
           /\ failures[3].attempt = 3

\* three transient failures with three different messages
C18_Witness ==
    /\ Len(failures) = 3
    /\ failures[1].message = <<"Internal", "error">>
    /\ failures[2].message = <<"server", "unavailable">>
    /\ failures[3].message = <<"Veo", "Operation", "Error:", "Internal", "error">>
    /\ videoOutcome # <<>>

\* C19 as stated: a video operation that reports state FAILED, or a 3D task
\* that reports failed, banned, expired, cancelled or unknown, is surfaced to
\* the caller and never followed by another attempt or another fetch,
\* whatever the failure message is.
C19_Original ==
    /\ \A i \in 1..Len(failures) :
           failures[i].failedState =>
               /\ i = Len(failures)
               /\ videoOutcome = <<[kind |-> "thrown", error |-> failures[i].message]>>
    /\ \A i \in 1..Len(fetched) :
           fetched[i].status \in {"failed", "banned", "expired", "cancelled",
                                  "unknown"} =>
               /\ i = Len(fetched)
               /\ pollOutcome = <<[kind |-> "thrown",
                                   error |-> "Task " \o fetched[i].status]>>

\* C19 amended: a 3D task that reports failed, banned, expired, cancelled or
\* unknown is surfaced and never followed by another fetch.  A video
\* operation that reports FAILED is surfaced without another attempt when
\* its failure message is not transient or when it is attempt 3; when the
\* message is transient and attempts remain, the attempt is retried after
\* the 4000 ms sleep like any other transient failure.
C19_Amended ==
    /\ \A i \in 1..Len(failures) :
           failures[i].failedState =>
               IF Transient(failures[i].message) /\ failures[i].attempt < 3
               THEN /\ attempt > failures[i].attempt \/ awaited = "delay:retry"
                    /\ Len(RetrySleeps) >= i
                    /\ RetrySleeps[i].ms = 4000
               ELSE /\ i = Len(failures)
                    /\ videoOutcome =
                           <<[kind |-> "thrown", error |-> failures[i].message]>>
    /\ \A i \in 1..Len(fetched) :
           fetched[i].status \in {"failed", "banned", "expired", "cancelled",
                                  "unknown"} =>
               /\ i = Len(fetched)
               /\ pollOutcome = <<[kind |-> "thrown",
                                   error |-> "Task " \o fetched[i].status]>>

\* attempt 2 is under way after attempt 1 ended in state FAILED with the
\* provider's message 'Internal error'
C19_Witness ==
    /\ Len(failures) = 1
    /\ failures[1].failedState
    /\ failures[1].message = <<"Veo", "State", "FAILED:", "Internal", "error">>
    /\ attempt = 2
    /\ awaited = "getVideosOperation"

\* ------------------------------------------------------------- task polling
\* C20: waitForTaskCompletion, given onProgress, invokes it exactly once for
\* every status it fetches, in fetch order and including the terminal one;
\* when the fetched status is 'success' it resolves with that status payload
\* and fetches nothing more.
C20_ProgressPerFetchedStatus ==
    /\ hasOnProgress =>
           progressCalls = [i \in 1..Len(fetched) |->
                               <<fetched[i].progress, fetched[i].status>>]
    /\ ~hasOnProgress => progressCalls = <<>>
    /\ \A i \in 1..Len(fetched) :
           fetched[i].status = "success" =>
               /\ i = Len(fetched)
               /\ pollOutcome = <<[kind |-> "returned", status |-> fetched[i]]>>
               /\ awaited = "none"

\* the statuses queued, running, running, success were fetched and reported
C20_Witness ==
    /\ hasOnProgress
    /\ Len(fetched) = 4
    /\ [i \in 1..4 |-> progressCalls[i][2]] =
           <<"queued", "running", "running", "success">>
    /\ pollOutcome = <<[kind |-> "returned", status |-> fetched[4]]>>

\* the status the step fetched (the step is one that fetched a status)
Fetches == Len(fetched') = Len(fetched) + 1
LastFetched == fetched'[Len(fetched')].status

\* C21: when waitForTaskCompletion fetches failed, banned, expired, cancelled
\* or unknown it rejects with the task-failed error naming that status and
\* fetches no further status; after queued or running it sleeps the poll
\* interval (3000 ms) and goes round the loop again, which polls again while
\* the wait budget lasts.
C21_FailureStopsOthersContinue ==
    [][/\ (Fetches /\ LastFetched \in {"failed", "banned", "expired",
                                       "cancelled", "unknown"}) =>
             /\ pollOutcome' = <<[kind |-> "thrown",
                                  error |-> "Task " \o LastFetched]>>
             /\ awaited' = "none"
       /\ (Fetches /\ LastFetched \in {"queued", "running"}) =>
             /\ pollOutcome' = <<>>
             /\ awaited' = "delay:pollInterval"
       /\ (awaited = "delay:pollInterval" /\ awaited' # awaited) =>
             /\ elapsed' = elapsed + 3000
             /\ IF elapsed' < maxWaitMs
                THEN awaited' = "getTaskStatus" /\ pollOutcome' = <<>>
                ELSE awaited' = "none"
       /\ \A i \in 1..Len(fetched') :
              fetched'[i].status \notin {"queued", "running"} =>
                  i = Len(fetched') /\ awaited' = "none"
      ]_vars

\* the task was queued, then running, then banned
C21_Witness ==
    /\ Len(fetched) = 3
    /\ fetched[1].status = "queued"
    /\ fetched[2].status = "running"
    /\ fetched[3].status = "banned"
    /\ pollOutcome = <<[kind |-> "thrown", error |-> "Task banned"]>>
    /\ elapsed >= 6000

TimedOut == pollOutcome = <<[kind |-> "thrown", error |-> "Task timed out"]>>

\* C22: if the polled task never reaches a terminal status, the call rejects
\* with 'Task timed out' once maxWaitMs has elapsed: a status is requested
\* only while less than maxWaitMs has elapsed, so the number of fetches is
\* bounded, the timeout is raised only when the budget is used up, and every
\* call ends provided each status fetch returns.
C22_TimesOut ==
    /\ [](awaited = "getTaskStatus" => elapsed < maxWaitMs)
    /\ [](Len(fetched) > 0 => (Len(fetched) - 1) * 3000 < maxWaitMs)
    /\ [](TimedOut =>
             /\ elapsed >= maxWaitMs
             /\ \A i \in 1..Len(fetched) :
                    fetched[i].status \in {"queued", "running"})
    /\ (awaited \in {"getTaskStatus", "delay:pollInterval"})
           ~> (pollOutcome # <<>>)

\* four statuses were fetched, none terminal, and the call timed out
C22_Witness ==
    /\ TimedOut
    /\ Len(fetched) = 4
    /\ maxWaitMs = 10000
    /\ elapsed >= 10000

\* ------------------------------------------------------------ video polling
\* C23 as stated: video-operation polling has the wait budget of the task
\* poller, so every call of generateAvatarVideo eventually returns or throws
\* provided each provider request returns.
C23_Original ==
    (awaited \in {"generateVideos", "getVideosOperation", "delay:poll"})
        ~> (videoOutcome # <<>>)

\* ------------------------------------------------------------ empty texts
\* C24 as stated: optimizePrompt never returns an empty prompt, so no image
\* is requested with an empty prompt and the prompt stored when the
\* optimizer returns is not empty.
C24_Original ==
    [][/\ \A i \in 1..Len(calls') :
              calls'[i].op = "generateAvatarImage" => calls'[i].prompt # 0
       /\ (pc = "optimizePrompt" /\ pc' = "generateAvatarImage:V1") =>
              generatedPrompt' # 0
      ]_vars

\* C25: when the provider yields no text for a refinement, refinePrompt
\* returns the current prompt and does not throw: the run does not enter
\* Error, it keeps the prompt and requests the next image with that same
\* prompt.
C25_EmptyRefinementKeepsPrompt ==
    [][(/\ pc \in {"refinePrompt", "refinePrompt:feedback"}
        /\ response = Fulfilled(0)
        /\ pc' # pc) =>
           /\ currentPrompt' = currentPrompt
           /\ generatedPrompt' = currentPrompt
           /\ step' = GENERATING_IMAGE
           /\ error' = error
           /\ calls' = Append(calls, Call("generateAvatarImage", currentPrompt,
                                          NoImage, 0, ""))
           /\ pc' \in {"generateAvatarImage", "generateAvatarImage:V1"}
      ]_vars

\* an image was requested a second time with the prompt of the first request
\* and has been delivered
C25_Witness ==
    /\ Len(genPrompts) >= 2
    /\ genPrompts[1] = genPrompts[2]
    /\ genPrompts[1] # 0
    /\ step = CRITIQUING

\* C26 as stated: every CritiqueResult handed to the loop has an integer
\* score in 0..100, so no refine/stop decision is taken on a score outside
\* that range.
C26_Original ==
    \A i \in 1..Len(crit) : crit[i].score \in 0..100

\* ------------------------------------------------------------ 3D conversion
\* '3D model downloaded!' (98) was reported: the try block of the model's
\* download ran to its end
ModelDownloadCompleted ==
    \E k \in 1..Len(onProgressCalls) : onProgressCalls[k] = 98

Returned3D == model3DOutcome # <<>> /\ model3DOutcome[1].kind = "returned"

Extends(before, after) ==
    Len(before) <= Len(after) /\ SubSeq(after, 1, Len(before)) = before

\* the steps that start a run, and the step of reset
SubmitStep == handler = "none" /\ handler' = "submit"
RefineStep == handler = "none" /\ handler' = "refine"
ResetStep == step # INPUT /\ step' = INPUT

\* C28 as stated: within a session, feedback resumptions included, every
\* step leaves the existing entries of the log as they are and only adds
\* entries at its end, and a reset of the session empties the log.
C28_Original ==
    [][/\ ResetStep => logs' = <<>>
       /\ (~ResetStep /\ ~SubmitStep) => Extends(logs, logs')
      ]_vars

\* C28 amended: the log is emptied only at the start of a run that is
\* given no prompt (`!initialPrompt`): every submit of a brief, and a
\* feedback resumption whose stored prompt is the empty string; that run
\* then writes its two opening entries into the empty log.  Every other
\* step, reset included, leaves the existing entries as they are and only
\* adds entries at the end; reset leaves the log unchanged.
C28_Amended ==
    [][/\ ResetStep => logs' = logs
       /\ (SubmitStep \/ (RefineStep /\ generatedPrompt = 0)) =>
             logs' = <<Entry("Initializing Avatar Agent...", "info"),
                       Entry("Analyzing input...", "info")>>
       /\ ~(SubmitStep \/ (RefineStep /\ generatedPrompt = 0)) =>
             Extends(logs, logs')
      ]_vars

\* after a reset the log of the ended session is still there
C28_Witness ==
    /\ step = INPUT
    /\ handler = "none"
    /\ Len(logs) > 2
    /\ logs[Len(logs)].type = "error"

\* ------------------------------------------------------------ status changes
\* the steps in which a provider call of the run is awaited
ProcessingSteps == {OPTIMIZING_PROMPT, GENERATING_IMAGE, CRITIQUING, REFINING,
                    GENERATING_VIDEO}

\* C29 as stated: the status changes only along Input -> OptimizingPrompt
\* -> GeneratingImage -> Critiquing, Critiquing <-> Refining, Critiquing ->
\* AwaitingApproval, Critiquing -> GeneratingVideo, AwaitingApproval ->
\* GeneratingVideo, GeneratingVideo -> Complete and any state -> Error.
C29_Original ==
    [][step' # step =>
          \/ step' = ERROR
          \/ <<step, step'>> \in
                {<<INPUT, OPTIMIZING_PROMPT>>,
                 <<OPTIMIZING_PROMPT, GENERATING_IMAGE>>,
                 <<GENERATING_IMAGE, CRITIQUING>>,
                 <<CRITIQUING, REFINING>>,
                 <<REFINING, CRITIQUING>>,
                 <<CRITIQUING, AWAITING_APPROVAL>>,
                 <<CRITIQUING, GENERATING_VIDEO>>,
                 <<AWAITING_APPROVAL, GENERATING_VIDEO>>,
                 <<GENERATING_VIDEO, COMPLETE>>}
      ]_vars

\* the status changes of the code
StepChanges ==
    {<<INPUT, OPTIMIZING_PROMPT>>,
     <<ERROR, OPTIMIZING_PROMPT>>,
     <<OPTIMIZING_PROMPT, GENERATING_IMAGE>>,
     <<GENERATING_IMAGE, CRITIQUING>>,
     <<CRITIQUING, REFINING>>,
     <<REFINING, GENERATING_IMAGE>>,
     <<GENERATING_IMAGE, AWAITING_APPROVAL>>,
     <<CRITIQUING, GENERATING_VIDEO>>,
     <<AWAITING_APPROVAL, GENERATING_VIDEO>>,
     <<GENERATING_VIDEO, COMPLETE>>,
     <<AWAITING_APPROVAL, REFINING>>,
     <<COMPLETE, REFINING>>,
     <<AWAITING_APPROVAL, OPTIMIZING_PROMPT>>,
     <<COMPLETE, OPTIMIZING_PROMPT>>,
     <<AWAITING_APPROVAL, INPUT>>,
     <<COMPLETE, INPUT>>,
     <<ERROR, INPUT>>}
    \cup {<<s, ERROR>> : s \in ProcessingSteps}

\* C29 amended: the status changes only along the pairs of StepChanges: a
\* run goes Input or Error -> OptimizingPrompt -> GeneratingImage ->
\* Critiquing; an unsatisfied critique goes Critiquing -> Refining ->
\* GeneratingImage, and the new image leads back to Critiquing or, after
\* the last iteration, to AwaitingApproval; a satisfying critique goes
\* Critiquing -> GeneratingVideo; approval goes AwaitingApproval ->
\* GeneratingVideo -> Complete; feedback goes AwaitingApproval or Complete
\* -> Refining (-> OptimizingPrompt when the stored prompt is empty); reset
\* goes AwaitingApproval, Complete or Error -> Input; Error is entered from
\* each processing step and from no other, Complete only from
\* GeneratingVideo.
C29_Amended ==
    /\ [][step' # step => <<step, step'>> \in StepChanges]_vars
    /\ [][(step' = COMPLETE /\ step # COMPLETE) => step = GENERATING_VIDEO]_vars
    /\ [][(step' = ERROR /\ step # ERROR) => step \in ProcessingSteps]_vars

\* the run exhausted its iterations: the 4th image arrived in
\* GeneratingImage and the status went to AwaitingApproval without a critique
C29_Witness ==
    /\ step = AWAITING_APPROVAL
    /\ Len(genPrompts) = 4
    /\ Len(crit) = 3
    /\ handler = "none"

\* ------------------------------------------------------------ termination
\* a run of executeGenerationLoop is under way
RunUnderWay == handler \in {"submit", "refine"} /\ pc \in AdapterCalls

\* calls of refinePrompt of the run that carry user feedback, and those
\* that carry a critique
FeedbackRefinements ==
    Cardinality({i \in 1..Len(calls) :
                    calls[i].op = "refinePrompt" /\ calls[i].feedback # ""})
CritiqueRefinements ==
    Cardinality({i \in 1..Len(calls) :
                    calls[i].op = "refinePrompt" /\ calls[i].feedback = ""})

\* C30: provided every provider call eventually returns or throws, every
\* run of executeGenerationLoop, fresh or resumed, makes at most one
\* prompt-establishing call, 4 image generations, 3 critiques and 3
\* critique-driven refinements, and then reaches AwaitingApproval,
\* GeneratingVideo or Error.
C30_RunTerminates ==
    /\ [](/\ CallCount("optimizePrompt") + FeedbackRefinements <= 1
          /\ CallCount("generateAvatarImage") <= MAX_REFINEMENT_LOOPS + 1
          /\ CallCount("critiqueGeneratedImage") <= MAX_REFINEMENT_LOOPS
          /\ CritiqueRefinements <= MAX_REFINEMENT_LOOPS)
    /\ RunUnderWay ~> (step \in {AWAITING_APPROVAL, GENERATING_VIDEO, ERROR})

\* a resumed run used every call it may make and stopped for approval
C30_Witness ==
    /\ step = AWAITING_APPROVAL
    /\ FeedbackRefinements = 1
    /\ CallCount("generateAvatarImage") = 4
    /\ CallCount("critiqueGeneratedImage") = 3
    /\ CritiqueRefinements = 3

\* ------------------------------------------------------------ order of calls
\* positions in `calls` of the calls of `op`, and how many of them come
\* before position i
CallsOf(op) == {i \in 1..Len(calls) : calls[i].op = op}
CallsBefore(op, i) == Cardinality({j \in CallsOf(op) : j < i})

\* C31: in one run exactly one image (V1) is requested before the first
\* critique; every critique is made on the image generated last; every
\* image request after V1 directly follows a refinePrompt call that was
\* given the current prompt and the critique just obtained, which directly
\* follows that critique, and the request uses the prompt the refiner
\* returned.
C31_CallsOrdered ==
    /\ [](\A i \in CallsOf("critiqueGeneratedImage") :
              /\ CallsBefore("generateAvatarImage", i) >= 1
              /\ calls[i].image = CallsBefore("generateAvatarImage", i)
              /\ CallsBefore("critiqueGeneratedImage", i) = 0 =>
                    CallsBefore("generateAvatarImage", i) = 1)
    /\ [](\A i \in CallsOf("generateAvatarImage") :
              CallsBefore("generateAvatarImage", i) >= 1 =>
                  LET k == CallsBefore("critiqueGeneratedImage", i) IN
                  /\ i >= 3
                  /\ calls[i - 1].op = "refinePrompt"
                  /\ calls[i - 1].feedback = ""
                  /\ calls[i - 2].op = "critiqueGeneratedImage"
                  /\ k >= 1 /\ k <= Len(crit)
                  /\ calls[i - 1].score = crit[k].score
                  /\ calls[i - 1].prompt =
                        calls[CHOOSE j \in CallsOf("generateAvatarImage") :
                                 CallsBefore("generateAvatarImage", j) =
                                 CallsBefore("generateAvatarImage", i) - 1].prompt)
    /\ [][(pc = "refinePrompt" /\ pc' = "generateAvatarImage") =>
             /\ calls'[Len(calls')].op = "generateAvatarImage"
             /\ calls'[Len(calls')].prompt = currentPrompt'
             /\ IF response.value = 1
                THEN currentPrompt' \notin {0, currentPrompt}
                ELSE currentPrompt' = currentPrompt
         ]_vars

\* a run that made every call it can make: V1, three critiques, each
\* followed by a refinement and an image
C31_Witness ==
    /\ Len(calls) >= 11
    /\ calls[2].op = "generateAvatarImage"
    /\ calls[3].op = "critiqueGeneratedImage"
    /\ calls[4].op = "refinePrompt"
    /\ calls[5].op = "generateAvatarImage"
    /\ calls[11].op = "generateAvatarImage"
    /\ calls[11].prompt # calls[8].prompt

\* ------------------------------------------------------------ the pipeline
\* C32: in generateAll the video provider is called only if includeVideo
\* is set; after every successful image generation the 3D conversion is
\* started, directly or when the video phase has ended in whatever way;
\* the phase becomes 'error' only when optimizePrompt or generateAvatarImage
\* threw, and the 3D phase always ends in 'complete' with an avatar image,
\* also when video and 3D both failed.
C32_PipelineDegradesGracefully ==
    /\ [][/\ (awaited' = "generateAvatarVideo" /\ awaited # awaited') =>
                includeVideo
          /\ (awaited = "generateAvatarImage" /\ promise.status = "fulfilled"
              /\ awaited' # awaited) =>
                /\ avatarImage' # NoImage
                /\ IF includeVideo
                   THEN phase' = "generating-video"
                        /\ awaited' = "generateAvatarVideo"
                   ELSE phase' = "generating-3d"
                        /\ awaited' = "generate3DModel"
          /\ (phase = "generating-video" /\ phase' # phase) =>
                (phase' = "generating-3d" /\ awaited' = "generate3DModel")
          /\ (phase = "generating-3d" /\ phase' # phase) =>
                (phase' = "complete" /\ avatarImage' # NoImage)
          /\ (phase' = "error" /\ phase # "error") =>
                /\ awaited \in {"optimizePrompt", "generateAvatarImage"}
                /\ promise.status = "rejected"
         ]_vars
    /\ [](phase \in {"generating-video", "generating-3d", "complete"} =>
              avatarImage # NoImage)

\* video and 3D conversion both failed and the pipeline is complete
C32_Witness ==
    /\ phase = "complete"
    /\ includeVideo
    /\ avatarImage # NoImage
    /\ videoUrl = <<>>
    /\ model3DUrl = <<>>
    /\ \E i \in 1..Len(appLogs) :
           appLogs[i].message = "Video generation skipped: quota exceeded"
    /\ appLogs[Len(appLogs) - 1].message = "3D generation failed: quota exceeded"

\* ------------------------------------------------------------ 3D task order
\* the first three calls of generate3DModel, in order
TaskCalls == <<"uploadImageToTripo", "startImageToModelTask",
               "waitForTaskCompletion">>

Thrown3D == model3DOutcome # <<>> /\ model3DOutcome[1].kind = "thrown"

\* C33: generate3DModel uploads, then starts the task, then polls, each
\* only after the call before it returned; a call that throws ends the
\* function; a successful task whose output has neither a model nor a
\* pbr_model URL makes it throw 'No model URL in response' without any
\* download; when both URLs are there the pbr_model URL is the one that is
\* downloaded and, if the download fails, returned.
C33_UploadStartPoll ==
    /\ [](\A i \in 1..Len(requests) : i <= 3 => requests[i] = TaskCalls[i])
    /\ [][/\ (Len(requests') > Len(requests) /\ Len(requests) \in 1..2) =>
                /\ awaited = TaskCalls[Len(requests)]
                /\ promise.status = "fulfilled"
          /\ (awaited \in {TaskCalls[i] : i \in 1..3}
              /\ promise.status = "rejected" /\ awaited' # awaited) =>
                /\ model3DOutcome' = <<[kind |-> "thrown",
                                        error |-> promise.message]>>
                /\ requests' = requests
          /\ (awaited = "waitForTaskCompletion"
              /\ promise.status = "fulfilled" /\ awaited' # awaited) =>
                IF ~promise.value.model /\ ~promise.value.pbr_model
                THEN /\ model3DOutcome' =
                           <<[kind |-> "thrown",
                              error |-> "No model URL in response"]>>
                     /\ requests' = requests
                ELSE /\ model3DOutcome' = <<>>
                     /\ requests' = Append(requests, "downloadAsBase64")
                     /\ promise.value.pbr_model => localModelUrl' = "pbr_model"
                     /\ ~promise.value.pbr_model => localModelUrl' = "model"
         ]_vars
    /\ [](Returned3D =>
             /\ output[1].model \/ output[1].pbr_model
             /\ (output[1].pbr_model /\ ~ModelDownloadCompleted) =>
                    model3DOutcome[1].modelUrl = "pbr_model"
             /\ output[1].pbr_model => model3DOutcome[1].pbrModelUrl = "pbr_model")
    /\ [](Thrown3D => Len(requests) <= 3)

\* the task's output has both URLs, the download failed: the PBR URL is
\* returned
C33_Witness ==
    /\ Returned3D
    /\ output[1].model /\ output[1].pbr_model
    /\ model3DOutcome[1].modelUrl = "pbr_model"
    /\ ~model3DOutcome[1].modelBase64
    /\ Len(requests) = 4

\* ------------------------------------------------------------ the threshold
\* C34 as stated: the 'Quality Score' entry of a critique is logged as
\* success exactly when the score satisfies the loop, a score of exactly
\* 85 included.
C34_Original ==
    [][(pc = "critiqueGeneratedImage" /\ response.status = "fulfilled"
        /\ pc' # pc) =>
           /\ logs'[Len(logs) + 1].message = QualityScoreMessage
           /\ logs'[Len(logs) + 1].type = "success" <=> isSatisfied'
      ]_vars

\* ------------------------------------------------------------ exhausted runs
\* C35: a run that exhausts its iterations has made exactly 4 image
\* requests and 3 critiques; its 4th image is never critiqued and never the
\* result: reconciliation always replaces it by the best image, which is V1
\* when every score was 0.
C35_FourthImageNeverReturned ==
    (loopEnded /\ ~isSatisfied) =>
        /\ CallCount("generateAvatarImage") = 4
        /\ CallCount("critiqueGeneratedImage") = 3
        /\ Len(genPrompts) = 4 /\ Len(crit) = 3
        /\ \A i \in 1..Len(crit) : crit[i].image = i
        /\ restored
        /\ currentImage = bestImage
        /\ currentImage \in 1..3
        /\ step = AWAITING_APPROVAL => generatedImage = bestImage
        /\ (\A i \in 1..Len(crit) : crit[i].score = 0) => currentImage = 1

\* every score was 0: V1 is shown for approval after four images
C35_Witness ==
    /\ loopEnded /\ ~isSatisfied
    /\ step = AWAITING_APPROVAL
    /\ ScoreSeq = <<0, 0, 0>>
    /\ generatedImage = 1
    /\ Len(genPrompts) = 4

\* ------------------------------------------------------------ the stored prompt
\* the run has ended its loop and stands at the approval stop or in the
\* video generation
RunDelivered == loopEnded /\ step \in {AWAITING_APPROVAL, GENERATING_VIDEO}

\* C36 as stated: whenever a run ends in AwaitingApproval or proceeds to
\* video generation, the stored prompt is the prompt from which the
\* returned image was generated.
C36_Original ==
    RunDelivered => generatedPrompt = genPrompts[currentImage]

\* C36 amended: the stored prompt is the prompt of the image generated
\* last.  A run that ended satisfied returns that image, so the stored
\* prompt is the prompt of the returned image; a run that exhausted its
\* iterations returns one of the first three images while the stored
\* prompt is the prompt of the 4th, discarded image.
C36_Amended ==
    RunDelivered =>
        /\ generatedPrompt = genPrompts[Len(genPrompts)]
        /\ isSatisfied => currentImage = Len(genPrompts)
        /\ ~isSatisfied => (Len(genPrompts) = 4 /\ currentImage \in 1..3)

\* the approval dialog shows image 3 while the stored prompt is the one of
\* image 4
C36_Witness ==
    /\ step = AWAITING_APPROVAL
    /\ loopEnded
    /\ currentImage = 3
    /\ generatedImage = 3
    /\ generatedPrompt = genPrompts[4]
    /\ generatedPrompt # genPrompts[3]

\* ------------------------------------------------------------ the shown score
\* C37 as stated: in AwaitingApproval the critique held in session state is
\* the critique of the image held as the result: it is that image's
\* critique and its score is the best score of the run.
C37_Original ==
    step = AWAITING_APPROVAL =>
        /\ critique # <<>>
        /\ critique[1] = bestScore
        /\ \E i \in 1..Len(crit) :
               crit[i].image = generatedImage /\ crit[i].score = critique[1]

C39_DeadlineOnlyBeforeFetch ==
    /\ []((program = "waitForTaskCompletion" /\ maxWaitMs <= 0) =>
             /\ awaited = "none"
             /\ fetched = <<>>
             /\ pollOutcome # <<>> => TimedOut)
    /\ [][(awaited = "getTaskStatus" /\ promise.status = "fulfilled"
           /\ fetched' # fetched) =>
              LET s == promise.value.status IN
              /\ elapsed < maxWaitMs
              /\ s = "success" =>
                    pollOutcome' = <<[kind |-> "returned",
                                      status |-> promise.value]>>
              /\ s \in FailedStatuses =>
                    pollOutcome' = <<[kind |-> "thrown",
                                      error |-> "Task " \o s]>>
              /\ s \in {"queued", "running"} =>
                    (pollOutcome' = <<>> /\ awaited' = "delay:pollInterval")
         ]_vars
    /\ [][(pollOutcome = <<>> /\ pollOutcome' # <<>>
           /\ pollOutcome'[1].kind = "thrown"
           /\ pollOutcome'[1].error = "Task timed out") =>
              awaited \in {"none", "delay:pollInterval"}
         ]_vars

\* the 4th fetch started at 9000 ms of 10000 and answered 'success' at
\* 11000 ms: the task is returned
C39_Witness ==
    /\ pollOutcome # <<>>
    /\ pollOutcome[1].kind = "returned"
    /\ maxWaitMs = 10000
    /\ elapsed = 11000
    /\ Len(fetched) = 4

=============================================================================
